---- MODULE Spec2Model ----
(***************************************************************************)
(* Verification model of the property-listing extraction engine.           *)
(*                                                                         *)
(*   Spec       FirecrawlParser.parse (src/src/preprocessing/              *)
(*              firecrawl_parser.py): field resolution, noise filter,      *)
(*              heading-span and special-case segmentation, item cascade,  *)
(*              merge.  Texts are real strings; every regular expression   *)
(*              of the parser is an operator over the characters.          *)
(*   SpecMerge  the merge loop of _extract_firecrawl_sections applied to   *)
(*              arbitrary candidate sequences.                             *)
(*   SpecInput  parse_input_to_property_data and the /api/compare-json     *)
(*              handler (src/ui/backend/parsers.py, src/ui/backend/app.py).*)
(*   SpecSlug, SpecUrl, SpecName, SpecLocation, SpecAmenities, SpecScore   *)
(*              one function each, called once on an argument drawn from a *)
(*              bounded set: _infer_section_name, the URL resolution of    *)
(*              parse_markdown_to_property_data, _extract_real_property_   *)
(*              name, the location of parse_json_to_property_data, the     *)
(*              segmenter on a line of amenities, the confidence scorer.   *)
(*   SpecNoise, SpecNavigation, SpecSpans, SpecShortLines                  *)
(*              the noise filter, parse on documents with navigation       *)
(*              headings, the heading spans and the short lines of the     *)
(*              item cascade.                                              *)
(*   SpecJobs   the life of a comparison job in src/ui/backend/app.py:     *)
(*              the request handlers interleaved with run_comparison_job.  *)
(*   SpecExtract  SimpleLLMExtractor.extract (src/src/agents/              *)
(*              simple_extractor.py), called once.                         *)
(*   SpecRetries  LLMClient.generate_with_retries (src/src/utils/          *)
(*              llm_client.py), attempt by attempt.                        *)
(*   SpecConcurrent  two calls of FirecrawlParser.parse, interleaved       *)
(*              statement by statement.                                    *)
(***************************************************************************)
EXTENDS Integers, Sequences, FiniteSets, TLC

VARIABLES
    mode,       \* which subsystem this behaviour exercises
    data,       \* parse(): the input dict {property_name, url, extracted_content.text}
    runs,       \* parse(): the records returned by the successive calls on `data`;
                \* SpecConcurrent: the frames of the two concurrent calls
    cands,      \* merge loop: the candidate sections handed to it
    merged,     \* merge loop: <<result>> once the loop has run, <<>> before
    jobs_store, \* app.py: job_id -> job record
    calls,      \* parsers.py: log of parse_input_to_property_data calls of the last request;
                \* SpecRetries: the outcomes of the calls of generate so far
    response,   \* app.py: the HTTP response of the last request
    nreq,       \* app.py: number of requests handled (SpecJobs: of jobs created)
    scraper,    \* app.py: whether the Firecrawl scraper was initialised
    arg,        \* a single function under study: its arguments
    out,        \* ... and <<value>> once it has returned, <<>> before
    tasks       \* app.py: the background tasks, job id -> where the task stands

vars == <<mode, data, runs, cands, merged, jobs_store, calls, response, nreq, scraper,
          arg, out, tasks>>

-----------------------------------------------------------------------------
(* Strings.  A text is a TLA+ string; a character is a string of length 1. *)

NL == "\n"
TAB == "\t"

Ch(s, i) == SubSeq(s, i, i)

\* Python's \s restricted to the characters the inputs use.
IsSpace(c) == c \in {" ", TAB, NL}

IsDigit(c) == c \in {"0", "1", "2", "3", "4", "5", "6", "7", "8", "9"}

UpperAlpha == "ABCDEFGHIJKLMNOPQRSTUVWXYZ"
LowerAlpha == "abcdefghijklmnopqrstuvwxyz"

UpperSet == {Ch(UpperAlpha, i) : i \in 1..26}
LowerSet == {Ch(LowerAlpha, i) : i \in 1..26}

IsUpper(c) == c \in UpperSet
IsLower(c) == c \in LowerSet

\* Python's \w (ASCII part): letters, digits, underscore.
IsWord(c) == IsUpper(c) \/ IsLower(c) \/ IsDigit(c) \/ c = "_"

LowerTable ==
    [c \in UpperSet |-> Ch(LowerAlpha, CHOOSE i \in 1..26 : Ch(UpperAlpha, i) = c)]

LowerCh(c) == IF IsUpper(c) THEN LowerTable[c] ELSE c

\* str.lower(), character by character (by halves, to keep the evaluation shallow).
RECURSIVE Lower(_)
Lower(s) ==
    IF Len(s) = 0 THEN ""
    ELSE IF Len(s) = 1 THEN LowerCh(s)
    ELSE LET h == Len(s) \div 2
         IN  Lower(SubSeq(s, 1, h)) \o Lower(SubSeq(s, h + 1, Len(s)))

SetMin(S) == CHOOSE x \in S : \A y \in S : x <= y
SetMax(S) == CHOOSE x \in S : \A y \in S : x >= y

StartsAt(s, p, i) == i >= 1 /\ i + Len(p) - 1 <= Len(s) /\ SubSeq(s, i, i + Len(p) - 1) = p

\* The least i in a..b with P(i), 0 if there is none.
First(a, b, P(_)) ==
    IF \E i \in a..b : P(i)
    THEN CHOOSE i \in a..b : P(i) /\ \A j \in a..(i - 1) : ~P(j)
    ELSE 0

\* F applied to x: a value computed once and used in several places.
With(x, F(_)) == F(x)

\* The first element of seq that satisfies Ok, `default` if there is none.
FirstOr(seq, Ok(_), default) ==
    LET i == First(1, Len(seq), LAMBDA k : Ok(seq[k]))
    IN  IF i = 0 THEN default ELSE seq[i]

\* First index >= from at which p occurs in s, 0 if none (str.find + 1).
IndexFrom(s, p, from) ==
    First(from, Len(s) - Len(p) + 1, LAMBDA i : SubSeq(s, i, i + Len(p) - 1) = p)

\* `p in s`
Contains(s, p) == IndexFrom(s, p, 1) # 0

\* any(kw in s for kw in kws), kws a sequence of strings
ContainsAny(s, kws) == \E k \in 1..Len(kws) : Contains(s, kws[k])

\* End (exclusive) of the maximal run of characters satisfying IsSpace from i.
RECURSIVE SkipSpace(_, _)
SkipSpace(s, i) == IF i <= Len(s) /\ IsSpace(Ch(s, i)) THEN SkipSpace(s, i + 1) ELSE i

\* Last index <= i holding a character that is not a space, 0 if none.
RECURSIVE SkipSpaceBack(_, _)
SkipSpaceBack(s, i) == IF i >= 1 /\ IsSpace(Ch(s, i)) THEN SkipSpaceBack(s, i - 1) ELSE i

\* str.strip(): the text between the first and the last non-space character.
Strip(s) ==
    LET a == SkipSpace(s, 1)
    IN  IF a > Len(s) THEN "" ELSE SubSeq(s, a, SkipSpaceBack(s, Len(s)))

\* str.split('\n')
RECURSIVE SplitLines(_)
SplitLines(s) ==
    LET k == IndexFrom(s, NL, 1)
    IN  IF k = 0 THEN <<s>>
        ELSE <<SubSeq(s, 1, k - 1)>> \o SplitLines(SubSeq(s, k + 1, Len(s)))

\* '\n'.join(lines)
RECURSIVE JoinWith(_, _)
JoinWith(lines, sep) ==
    IF Len(lines) = 0 THEN ""
    ELSE IF Len(lines) = 1 THEN lines[1]
    ELSE lines[1] \o sep \o JoinWith(Tail(lines), sep)

RECURSIVE SkipDigits(_, _)
SkipDigits(s, i) == IF i <= Len(s) /\ IsDigit(Ch(s, i)) THEN SkipDigits(s, i + 1) ELSE i

\* First index >= i holding a newline, Len(s)+1 if none: where a '.' run without
\* DOTALL must stop.
LineEnd(s, i) == LET k == IndexFrom(s, NL, i) IN IF k = 0 THEN Len(s) + 1 ELSE k

\* s[:n]
Take(seq, n) == SubSeq(seq, 1, IF Len(seq) < n THEN Len(seq) ELSE n)

Range(seq) == {seq[i] : i \in 1..Len(seq)}

\* list(dict.fromkeys(seq)): first occurrences, in order.
DictFromKeys(seq) ==
    LET keep == {i \in 1..Len(seq) : \A j \in 1..(i - 1) : seq[j] # seq[i]}
        RECURSIVE Build(_)
        Build(i) == IF i > Len(seq) THEN <<>>
                    ELSE (IF i \in keep THEN <<seq[i]>> ELSE <<>>) \o Build(i + 1)
    IN  Build(1)

-----------------------------------------------------------------------------
(* FirecrawlParser: field resolution.                                      *)

\* An absent key / None.  Optional strings are records [some, v].
None == [some |-> FALSE, v |-> ""]
Some(x) == [some |-> TRUE, v |-> x]

\* Truthiness of an optional string: present and non-empty.
Truthy(o) == o.some /\ o.v # ""

\* re.match(r'^#+\s*(.+)$', line.strip()) on one stripped line, then
\* group(1).strip(): the text after the leading run of '#', None if no match.
HeadingCapture(line) ==
    LET t == Strip(line)
        hashes == {i \in 1..Len(t) : \A j \in 1..i : Ch(t, j) = "#"}
    IN  IF hashes = {} THEN None
        ELSE IF SetMax(hashes) = Len(t)
             \* only '#': '#+' gives its last '#' back to '(.+)'
             THEN (IF Len(t) >= 2 THEN Some("#") ELSE None)
        ELSE Some(Strip(SubSeq(t, SetMax(hashes) + 1, Len(t))))

\* fallback.split(' - ')[0]
BeforeFirstDash(s) ==
    LET k == IndexFrom(s, " - ", 1)
    IN  IF k = 0 THEN s ELSE SubSeq(s, 1, k - 1)

\* A variant of the name resolution with a plausible slip: the first heading
\* of a suitable length is taken, generic or not.
_extract_real_property_name_any(text, fallback) ==
    IF Truthy(fallback)
       /\ ContainsAny(fallback.v, <<" - Bedroom", " - Amenities", " - Kitchen">>)
    THEN LET lines == Take(SplitLines(text), 20)
             ok(i) == LET c == HeadingCapture(lines[i])
                      IN  c.some /\ 3 < Len(c.v) /\ Len(c.v) < 80
             good == {i \in 1..Len(lines) : ok(i)}
         IN  IF good # {} THEN HeadingCapture(lines[SetMin(good)]).v
             ELSE Strip(BeforeFirstDash(fallback.v))
    ELSE IF Truthy(fallback) THEN fallback.v ELSE "Unknown Property"

_extract_real_property_name(text, fallback) ==
    IF Truthy(fallback)
       /\ ContainsAny(fallback.v, <<" - Bedroom", " - Amenities", " - Kitchen">>)
    THEN LET lines == Take(SplitLines(text), 20)
             ok(i) == LET c == HeadingCapture(lines[i])
                      IN  /\ c.some
                          /\ 3 < Len(c.v) /\ Len(c.v) < 80
                          /\ ~Contains(c.v, "Overview")
                          /\ ~Contains(c.v, "Bedroom")
                          /\ ~Contains(c.v, "Amenities")
             good == {i \in 1..Len(lines) : ok(i)}
         IN  IF good # {} THEN HeadingCapture(lines[SetMin(good)]).v
             ELSE Strip(BeforeFirstDash(fallback.v))
    ELSE IF Truthy(fallback) THEN fallback.v ELSE "Unknown Property"

DefaultUrl == "https://example.com"

\* data.get('url', 'https://example.com'): the default only for an absent key.
ResolveUrl(u) == IF u.some THEN u.v ELSE DefaultUrl

-----------------------------------------------------------------------------
(* FirecrawlParser: noise filter, heading classification.                  *)

skip_keywords ==
    <<"Menu", "Login", "Sign Up", "Shortlist", "Support", "Download App",
      "Play Store", "App Store", "Follow us", "amber Â©", "Company", "Discover",
      "Share Listing", "Favorites", "Add a Property">>

\* A variant of the filter with a plausible slip: a line of exactly 100
\* characters is removed too.
_remove_navigation_noise_le(text) ==
    LET lines == SplitLines(text)
        keep(line) == ~(ContainsAny(line, skip_keywords) /\ Len(line) <= 100)
    IN  JoinWith(SelectSeq(lines, keep), NL)

_remove_navigation_noise(text) ==
    LET lines == SplitLines(text)
        keep(line) == ~(ContainsAny(line, skip_keywords) /\ Len(line) < 100)
    IN  JoinWith(SelectSeq(lines, keep), NL)

nav_keywords ==
    <<"Nearby Locations", "Similar Properties", "Student Accommodations",
      "Tourist Attractions", "Universities in", "Nearby Places", "Cities", "Localities">>

_is_navigation_section(heading) == ContainsAny(heading, nav_keywords)

\* re.sub(r'[^\w\s]', '', s).replace(' ', '_')
SlugCh(c) == IF c = " " THEN "_" ELSE IF IsWord(c) \/ IsSpace(c) THEN c ELSE ""

RECURSIVE Slugify(_)
Slugify(s) ==
    IF Len(s) = 0 THEN ""
    ELSE IF Len(s) = 1 THEN SlugCh(s)
    ELSE LET h == Len(s) \div 2
         IN  Slugify(SubSeq(s, 1, h)) \o Slugify(SubSeq(s, h + 1, Len(s)))

_infer_section_name(heading) ==
    LET h == Lower(heading)
        has(k) == Contains(h, k)
    IN  IF has("amenities") \/ has("amenity") THEN "amenities"
        ELSE IF has("room types") \/ has("room type") THEN "room_types"
        ELSE IF has("pricing") \/ has("price") \/ has("fees") THEN "pricing"
        ELSE IF has("faq") \/ has("question") THEN "faqs"
        ELSE IF has("about") \/ has("overview") THEN "about"
        ELSE IF has("location") \/ has("commute") THEN "location"
        ELSE IF has("nearby") \/ has("surrounding") THEN "nearby_places"
        ELSE IF has("features") THEN "features"
        ELSE IF has("bills") /\ has("payment") THEN "bills_and_payments"
        ELSE IF has("bills") THEN "bills_included"
        ELSE IF has("payment") \/ has("policies") THEN "payment"
        ELSE IF has("cancellation") THEN "cancellation"
        ELSE IF has("offer") \/ has("deal") \/ has("promotion") THEN "offers"
        ELSE IF has("review") \/ has("rating") THEN "reviews"
        ELSE IF has("contact") \/ has("support") THEN "contact"
        ELSE Slugify(h)

-----------------------------------------------------------------------------
(* FirecrawlParser: the regular expressions of the item extractor.         *)

\* re.findall(r'(\d+\s*Bed\s*\d*\s*Bath)', s): end (exclusive) of the match that
\* starts at i, 0 if none starts there.
RoomMatchEnd(s, i) ==
    LET d1 == SkipDigits(s, i)
        w1 == SkipSpace(s, d1)
        w2 == SkipSpace(s, w1 + 3)
        d2 == SkipDigits(s, w2)
        w3 == SkipSpace(s, d2)
    IN  IF d1 > i /\ StartsAt(s, "Bed", w1) /\ StartsAt(s, "Bath", w3) THEN w3 + 4 ELSE 0

RECURSIVE RoomFindAll(_, _)
RoomFindAll(s, i) ==
    LET a == First(i, Len(s), LAMBDA x : RoomMatchEnd(s, x) # 0)
    IN  IF a = 0 THEN <<>>
        ELSE <<SubSeq(s, a, RoomMatchEnd(s, a) - 1)>> \o RoomFindAll(s, RoomMatchEnd(s, a))

\* re.findall(r'###\s*(.+\?)', s): the match that starts at i, as [ok, from, to].
\* '\s*' is greedy and may cross lines; '(.+\?)' stays on one line and runs to the
\* last '?' of it; when that line starts with its only '?', '\s*' gives one
\* character back.
QuestionMatch(s, i) ==
    LET j == SkipSpace(s, i + 3)
        qs == {q \in j..(LineEnd(s, j) - 1) : Ch(s, q) = "?"}
        q == SetMax(qs)
    IN  IF ~StartsAt(s, "###", i) \/ qs = {} THEN [ok |-> FALSE, from |-> 0, to |-> 0]
        ELSE IF q > j THEN [ok |-> TRUE, from |-> j, to |-> q]
        ELSE IF j - 1 >= i + 3 /\ Ch(s, j - 1) # NL THEN [ok |-> TRUE, from |-> j - 1, to |-> q]
        ELSE [ok |-> FALSE, from |-> 0, to |-> 0]

RECURSIVE QuestionFindAll(_, _)
QuestionFindAll(s, i) ==
    LET a == First(i, Len(s), LAMBDA x : QuestionMatch(s, x).ok)
        m == QuestionMatch(s, a)
    IN  IF a = 0 THEN <<>>
        ELSE <<SubSeq(s, m.from, m.to)>> \o QuestionFindAll(s, m.to + 1)

\* re.split(r'\s{2,}', s) for a stripped s: cut at every run of 2 or more spaces.
RECURSIVE SplitMultiSpace(_)
SplitMultiSpace(s) ==
    LET runs2 == {i \in 1..(Len(s) - 1) : IsSpace(Ch(s, i)) /\ IsSpace(Ch(s, i + 1))}
    IN  IF runs2 = {} THEN <<s>>
        ELSE LET a == SetMin(runs2)
                 b == SkipSpace(s, a)
             IN  <<SubSeq(s, 1, a - 1)>> \o SplitMultiSpace(SubSeq(s, b, Len(s)))

\* str.split(): the maximal runs of non-space characters.
RECURSIVE SplitWords(_)
SplitWords(s) ==
    LET a == SkipSpace(s, 1)
        sp == {i \in a..Len(s) : IsSpace(Ch(s, i))}
        b == IF sp = {} THEN Len(s) + 1 ELSE SetMin(sp)
    IN  IF a > Len(s) THEN <<>>
        ELSE <<SubSeq(s, a, b - 1)>> \o SplitWords(SubSeq(s, b, Len(s)))

\* list(set(xs)): the distinct elements in the iteration order of a Python set of
\* strings, which depends on the process's string-hash seed.  `ord` is that
\* order: a sequence holding every string at most once.
ListOfSet(xs, ord) == SelectSeq(ord, LAMBDA x : x \in Range(xs))

\* The iteration orders a process can have for the strings of xs.
SetOrders(xs) ==
    LET S == Range(xs)
        n == Cardinality(S)
    IN  {p \in [1..n -> S] : \A a, b \in 1..n : a # b => p[a] # p[b]}

-----------------------------------------------------------------------------
(* FirecrawlParser: the item extractor.                                    *)

RECURSIVE Flatten(_)
Flatten(ss) == IF Len(ss) = 0 THEN <<>> ELSE ss[1] \o Flatten(Tail(ss))

\* BaseParser._extract_items_from_text ("leading-dash bullet lines"): the text
\* after the dash of every line whose first non-space character is a dash.
_extract_items_from_text(content) ==
    LET lines == SplitLines(content)
        item(line) == LET t == Strip(line)
                      IN  IF StartsAt(t, "-", 1) THEN <<Strip(SubSeq(t, 2, Len(t)))>> ELSE <<>>
    IN  SelectSeq(Flatten([i \in 1..Len(lines) |-> item(lines[i])]), LAMBDA x : x # "")

MinAccepted == 3
ItemLenCap == 100
ShortLineCap == 50
ShortLineTake == 20
ItemsCap == 50

\* Pattern 2: every line holding two consecutive spaces, split on runs of 2+
\* whitespace; the pieces of 2..99 characters.
SpaceSeparatedItems(content) ==
    LET lines == SplitLines(content)
        pieces(line) ==
            IF Contains(line, "  ")
            THEN LET raw == SplitMultiSpace(Strip(line))
                     st == [k \in 1..Len(raw) |-> Strip(raw[k])]
                 IN  SelectSeq(st, LAMBDA x : x # "" /\ Len(x) > 1 /\ Len(x) < ItemLenCap)
            ELSE <<>>
    IN  Flatten([i \in 1..Len(lines) |-> pieces(lines[i])])

\* Pattern 3: the stripped non-empty lines of 3..49 characters, the first 20 of
\* them, provided there are at least 3.
ShortLineItems(content) ==
    LET raw == SplitLines(content)
        lines == SelectSeq([i \in 1..Len(raw) |-> Strip(raw[i])], LAMBDA x : x # "")
        short_lines == SelectSeq(lines, LAMBDA l : Len(l) < ShortLineCap /\ Len(l) > 2)
    IN  IF Len(short_lines) >= 3 THEN Take(short_lines, ShortLineTake) ELSE <<>>

\* Pattern 4: FAQ questions.
FaqItems(content, section_name) ==
    IF Contains(Lower(section_name), "faq") \/ Contains(Lower(section_name), "question")
    THEN QuestionFindAll(content, 1) ELSE <<>>

\* Pattern 5: room types, through a set.
RoomItems(content, section_name, ord) ==
    IF Contains(Lower(section_name), "room")
    THEN ListOfSet(RoomFindAll(content, 1), ord) ELSE <<>>

\* The closing loop: strip, drop empty, seen and 1-character items; first 50.
DedupItems(items) ==
    LET st == [k \in 1..Len(items) |-> Strip(items[k])]
        keep == {k \in 1..Len(st) :
                    /\ st[k] # ""
                    /\ \A j \in 1..(k - 1) : st[j] # st[k]
                    /\ Len(st[k]) > 1}
        RECURSIVE Build(_)
        Build(k) == IF k > Len(st) THEN <<>>
                    ELSE (IF k \in keep THEN <<st[k]>> ELSE <<>>) \o Build(k + 1)
    IN  Take(Build(1), ItemsCap)

\* `if not items or len(items) < 3`: the next pattern adds to the list while it
\* holds fewer than 3 items.
ExtendIfFew(items, more) == IF Len(items) < MinAccepted THEN items \o more ELSE items

\* The list `items` as it stands before the closing loop.
CollectedItems(content, section_name, ord) ==
    ExtendIfFew(ExtendIfFew(_extract_items_from_text(content), SpaceSeparatedItems(content)),
                ShortLineItems(content))
    \o FaqItems(content, section_name) \o RoomItems(content, section_name, ord)

_extract_items_from_firecrawl_content(content, section_name, ord) ==
    DedupItems(CollectedItems(content, section_name, ord))

-----------------------------------------------------------------------------
(* FirecrawlParser: Strategy 1, heading spans.                             *)

PreSection(name, display, content, items) ==
    [original_name |-> name, display_name |-> display, content |-> content, items |-> items]

AtLineStart(s, i) == i = 1 \/ Ch(s, i - 1) = NL

\* One match of r'^##\s+(.+?)$\n(.*?)(?=\n##|\Z)' (MULTILINE | DOTALL) starting
\* at i: [ok, h1, h2, c1, c2], group(1) = s[h1..h2], group(2) = s[c1..c2], the
\* match ending before c2 + 1.
\*   '\s+' is greedy and may cross lines; '(.+?)' is lazy and runs to the first
\*   line end that a newline follows.  When no newline follows the text after
\*   '\s+', the engine backtracks into '\s+': group(1) then is the whitespace
\*   character before the last newline of that run.
\*   '(.*?)' runs to the first "\n##" or to the end of the text.
HeadingMatch(s, i) ==
    LET no == [ok |-> FALSE, h1 |-> 0, h2 |-> 0, c1 |-> 0, c2 |-> 0]
        j == SkipSpace(s, i + 2)
        k == IndexFrom(s, NL, j)
        nls == {n \in (i + 4)..(j - 1) : Ch(s, n) = NL}
        span(c1) == LET e == IndexFrom(s, NL \o "##", c1)
                    IN  IF e = 0 THEN Len(s) ELSE e - 1
    IN  IF ~(AtLineStart(s, i) /\ StartsAt(s, "##", i) /\ j > i + 2) THEN no
        ELSE IF k # 0 THEN [ok |-> TRUE, h1 |-> j, h2 |-> k - 1, c1 |-> k + 1, c2 |-> span(k + 1)]
        ELSE IF nls # {}
             THEN LET n == SetMax(nls)
                  IN  [ok |-> TRUE, h1 |-> n - 1, h2 |-> n - 1, c1 |-> n + 1, c2 |-> span(n + 1)]
        ELSE no

\* re.finditer: the non-overlapping matches from position i on, left to right.
RECURSIVE HeadingMatches(_, _)
HeadingMatches(s, i) ==
    LET a == First(i, Len(s), LAMBDA x : StartsAt(s, "##", x) /\ HeadingMatch(s, x).ok)
        m == HeadingMatch(s, a)
    IN  IF a = 0 THEN <<>> ELSE <<m>> \o HeadingMatches(s, m.c2 + 1)

ContentMin == 15

\* One match of the loop: the section it appends, if the heading is not
\* navigation and the content has more than 15 characters.
HeadingSection(heading, content, section_name, ord) ==
    IF _is_navigation_section(heading) THEN <<>>
    ELSE IF Len(content) > ContentMin
         THEN <<PreSection(section_name, heading, content,
                  _extract_items_from_firecrawl_content(content, section_name, ord))>>
    ELSE <<>>

\* The loop over the matches: the sections Strategy 1 appends.
HeadingSections(text_cleaned, ord) ==
    With(HeadingMatches(text_cleaned, 1),
         LAMBDA ms :
             Flatten([x \in 1..Len(ms) |->
                 With(Strip(SubSeq(text_cleaned, ms[x].h1, ms[x].h2)),
                      LAMBDA heading :
                          HeadingSection(heading,
                                         Strip(SubSeq(text_cleaned, ms[x].c1, ms[x].c2)),
                                         _infer_section_name(heading), ord))]))

-----------------------------------------------------------------------------
(* FirecrawlParser: Strategy 2, special sections.                          *)

\* sum(1 for kw in kws if kw in line)
CountIn(line, kws) == Cardinality({k \in 1..Len(kws) : Contains(line, kws[k])})

\* s.replace(p, ' ', 1)
ReplaceFirst(s, p) ==
    LET k == IndexFrom(s, p, 1)
    IN  IF k = 0 THEN s
        ELSE SubSeq(s, 1, k - 1) \o " " \o SubSeq(s, k + Len(p), Len(s))

amenities_keywords == <<"Gym", "Study Room", "Courtyard", "Boardroom", "Laundry", "Study Lounge">>

known_patterns ==
    <<"Study Room", "Study Lounge", "On-Site Laundry", "In-Suite Laundry",
      "Laundry Room", "Fitness Center", "Game Room", "Common Room",
      "Meeting Room", "Board Room", "Boardroom">>

known_single ==
    <<"Gym", "Courtyard", "Pool", "Cinema", "Theater", "Lounge",
      "Kitchen", "Parking", "Storage", "Elevator", "WiFi">>

\* The loop over known_patterns: [items, line_copy] after the first k patterns.
RECURSIVE TakePatterns(_, _)
TakePatterns(line, k) ==
    IF k = 0 THEN [items |-> <<>>, line_copy |-> line]
    ELSE LET prev == TakePatterns(line, k - 1)
         IN  IF Contains(prev.line_copy, known_patterns[k])
             THEN [items |-> Append(prev.items, known_patterns[k]),
                   line_copy |-> ReplaceFirst(prev.line_copy, known_patterns[k])]
             ELSE prev

\* The loop over remaining_words: a known single word is appended unless it
\* occurs in ' '.join(items).
RECURSIVE TakeSingles(_, _)
TakeSingles(items, words) ==
    IF Len(words) = 0 THEN items
    ELSE LET word == words[1]
         IN  TakeSingles(IF word \in Range(known_single) /\ ~Contains(JoinWith(items, " "), word)
                         THEN Append(items, word) ELSE items,
                         Tail(words))

AmenityItems(line) ==
    LET tp == TakePatterns(line, Len(known_patterns))
        all == TakeSingles(tp.items, SplitWords(tp.line_copy))
    IN  SelectSeq(DictFromKeys(all), LAMBDA x : Len(x) > 2)

\* First line with 3 of the keywords and 3 items: the amenities section.
AmenitiesSection(text) ==
    LET lines == SplitLines(text)
        hit == {i \in 1..Len(lines) :
                   CountIn(lines[i], amenities_keywords) >= 3 /\ Len(AmenityItems(lines[i])) >= 3}
    IN  IF hit = {} THEN <<>>
        ELSE LET line == lines[SetMin(hit)]
             IN  <<PreSection("amenities", "Amenities", line, AmenityItems(line))>>

bills_patterns == <<"Heat", "Hydro", "Gas", "Internet">>

known_bills ==
    <<"Heat", "Hydro", "Gas", "Internet", "In-Suite Laundry",
      "Electricity", "Water", "WiFi", "Wi-Fi">>

BillItems(line) == DictFromKeys(SelectSeq(known_bills, LAMBDA b : Contains(line, b)))

BillsSection(text) ==
    LET lines == SplitLines(text)
        hit == {i \in 1..Len(lines) :
                   CountIn(lines[i], bills_patterns) >= 3 /\ Len(BillItems(lines[i])) >= 3}
    IN  IF hit = {} THEN <<>>
        ELSE LET line == lines[SetMin(hit)]
             IN  <<PreSection("bills_included", "Bills Included", line, BillItems(line))>>

\* Where a lazy '(.*?)' starting at b ends (exclusive) under the lookahead
\* (?=\n##[^#]|t1|t2|...|$) with IGNORECASE and without MULTILINE: the first
\* position holding "\n##" and then a character other than '#', or one of the
\* terminators (lower-case, matched against the lower-cased text), or the end of
\* the text, or the newline that ends the text.
RegionEnd(s, b, terms) ==
    LET low == Lower(s)
        stop(e) == \/ StartsAt(s, NL \o "##", e) /\ e + 3 <= Len(s) /\ Ch(s, e + 3) # "#"
                   \/ \E t \in 1..Len(terms) : StartsAt(low, terms[t], e)
                   \/ e = Len(s) + 1
                   \/ e = Len(s) /\ Ch(s, e) = NL
    IN  First(b, Len(s) + 1, stop)

\* All whole lines of s that end in '?' and hold a character before it:
\* re.findall(r'^(.+\?)$', s, re.MULTILINE).
QuestionLines(s) ==
    SelectSeq(SplitLines(s), LAMBDA l : Len(l) >= 2 /\ Ch(l, Len(l)) = "?")

faq_terminators ==
    <<"show more", "view less", "nearby places", "student accommodations", "universities in">>

\* The FAQ section of the region `content` found at a (0 if none): its
\* questions by both patterns, first occurrences only.
FaqQuestions(a, content) ==
    With(DictFromKeys(QuestionFindAll(content, 1) \o QuestionLines(content)),
         LAMBDA questions :
             IF a = 0 \/ Len(questions) = 0 THEN <<>>
             ELSE <<PreSection("faqs", "FAQs", content, questions)>>)

FaqSection(text) ==
    LET a == IndexFrom(Lower(text), "frequently asked questions", 1)
        b == a + 26
    IN  FaqQuestions(a, Strip(SubSeq(text, b, RegionEnd(text, b, faq_terminators) - 1)))


\* The match of re.escape(room) + r'.*?(?:\n\n|\n[A-Z]|$)' (DOTALL) found by
\* re.search: from the first occurrence of room to the first blank line, the
\* first newline before a capital (both included), or the end of the text.
RoomContext(text, room) ==
    LET a == IndexFrom(text, room, 1)
        two(e) == StartsAt(text, NL \o NL, e)
                  \/ (StartsAt(text, NL, e) /\ e + 1 <= Len(text) /\ IsUpper(Ch(text, e + 1)))
        atEnd(e) == e = Len(text) + 1 \/ (e = Len(text) /\ Ch(text, e) = NL)
        e == First(a + Len(room), Len(text) + 1, LAMBDA x : two(x) \/ atEnd(x))
    IN  IF a = 0 THEN <<>>
        ELSE <<SubSeq(text, a, IF two(e) THEN e + 1 ELSE e - 1)>>

RoomContextMax == 5

\* The room types section: the rooms in the order the set gives them, and the
\* context of the first five as content.
RoomTypes(text, room_types, unique_rooms) ==
    LET firsts == Take(unique_rooms, RoomContextMax)
        room_content == Flatten([i \in 1..Len(firsts) |-> RoomContext(text, firsts[i])])
    IN  IF Len(room_types) = 0 THEN <<>>
        ELSE <<PreSection("room_types", "Room Types", JoinWith(room_content, NL \o NL), unique_rooms)>>

RoomTypesSection(text, ord) ==
    With(RoomFindAll(text, 1),
         LAMBDA room_types : RoomTypes(text, room_types, ListOfSet(room_types, ord)))

\* r'\s*\((\d+)\)' at x: the position after the ')', 0 if it does not match.
ParenCount(s, x) ==
    LET w == SkipSpace(s, x)
        d == SkipDigits(s, w + 1)
    IN  IF StartsAt(s, "(", w) /\ d > w + 1 /\ StartsAt(s, ")", d) THEN d + 1 ELSE 0

\* re.findall(r'^-\s*(.+?)$', s, re.MULTILINE): the match starting at i, as
\* [ok, from, to].  '\s*' may cross lines; when only whitespace follows the dash
\* the engine backtracks to the last character that is not a newline.
DashMatch(s, i) ==
    LET j == SkipSpace(s, i + 1)
        back == {q \in (i + 1)..Len(s) : Ch(s, q) # NL}
    IN  IF ~(AtLineStart(s, i) /\ StartsAt(s, "-", i)) THEN [ok |-> FALSE, from |-> 0, to |-> 0]
        ELSE IF j <= Len(s) THEN [ok |-> TRUE, from |-> j, to |-> LineEnd(s, j) - 1]
        ELSE IF back # {} THEN [ok |-> TRUE, from |-> SetMax(back), to |-> SetMax(back)]
        ELSE [ok |-> FALSE, from |-> 0, to |-> 0]

RECURSIVE DashFindAll(_, _)
DashFindAll(s, i) ==
    LET a == First(i, Len(s), LAMBDA x : DashMatch(s, x).ok)
        m == DashMatch(s, a)
    IN  IF a = 0 THEN <<>> ELSE <<SubSeq(s, m.from, m.to)>> \o DashFindAll(s, m.to + 1)

\* re.search of  label \s*\((\d+)\)(.*?)(?=\n##[^#]|terms|$)  (DOTALL |
\* IGNORECASE): the stripped group after the count, for the leftmost occurrence
\* of the (lower-case) label that a count follows; None if there is none.
LabeledRegion(text, label, terms) ==
    LET low == Lower(text)
        hit == First(1, Len(text), LAMBDA a :
                    StartsAt(low, label, a) /\ ParenCount(text, a + Len(label)) # 0)
        b == ParenCount(text, hit + Len(label))
    IN  IF hit = 0 THEN None
        ELSE Some(Strip(SubSeq(text, b, RegionEnd(text, b, terms) - 1)))

\* A section of the leading-dash lines of a region, if it has any.
RegionSection(r, name, display) ==
    IF ~r.some THEN <<>>
    ELSE With(DashFindAll(r.v, 1),
              LAMBDA policies : IF Len(policies) = 0 THEN <<>>
                                ELSE <<PreSection(name, display, r.v, policies)>>)

PolicySection(text, label, terms, name, display) ==
    RegionSection(LabeledRegion(text, label, terms), name, display)

PaymentSection(text) ==
    PolicySection(text, "payment policies", <<"cancellation">>, "payment", "Payment Policies")

CancellationSection(text) ==
    PolicySection(text, "cancellation policies", <<"frequently">>, "cancellation",
                  "Cancellation Policies")

\* r'##\s*Offers\s*\((\d+)\)...': "##", optional whitespace, the label.
OffersRegion(text) ==
    LET low == Lower(text)
        w(a) == SkipSpace(text, a + 2)
        hit == First(1, Len(text), LAMBDA a :
                    /\ StartsAt(text, "##", a)
                    /\ StartsAt(low, "offers", w(a))
                    /\ ParenCount(text, w(a) + 6) # 0)
        b == ParenCount(text, w(hit) + 6)
    IN  IF hit = 0 THEN None
        ELSE Some(Strip(SubSeq(text, b, RegionEnd(text, b, <<>>) - 1)))

OffersSection(text) == RegionSection(OffersRegion(text), "offers", "Offers")

_extract_special_sections(text, ord) ==
    AmenitiesSection(text) \o BillsSection(text) \o FaqSection(text)
    \o RoomTypesSection(text, ord) \o PaymentSection(text)
    \o CancellationSection(text) \o OffersSection(text)

-----------------------------------------------------------------------------
(* FirecrawlParser: merge of the candidates, and parse().                  *)

\* Variants of the loop with a plausible slip: the replaced section is not
\* removed; a candidate with as many items replaces the current one.
RECURSIVE MergeLoopNoRemove(_, _)
MergeLoopNoRemove(sections, k) ==
    IF k = 0 THEN <<>>
    ELSE LET unique_sections == MergeLoopNoRemove(sections, k - 1)
             section == sections[k]
             same == SelectSeq(unique_sections,
                               LAMBDA u : u.original_name = section.original_name)
         IN  IF Len(same) = 0 THEN Append(unique_sections, section)
             ELSE IF Len(section.items) > Len(same[1].items)
                  THEN Append(unique_sections, section)
             ELSE unique_sections

RECURSIVE MergeLoopGE(_, _)
MergeLoopGE(sections, k) ==
    IF k = 0 THEN <<>>
    ELSE LET unique_sections == MergeLoopGE(sections, k - 1)
             section == sections[k]
             same == SelectSeq(unique_sections,
                               LAMBDA u : u.original_name = section.original_name)
         IN  IF Len(same) = 0 THEN Append(unique_sections, section)
             ELSE IF Len(section.items) >= Len(same[1].items)
                  THEN Append(SelectSeq(unique_sections,
                                        LAMBDA u : u.original_name # section.original_name),
                              section)
             ELSE unique_sections

\* The "Deduplicate sections by name" loop over sections[1..k].
RECURSIVE MergeLoop(_, _)
MergeLoop(sections, k) ==
    IF k = 0 THEN <<>>
    ELSE LET unique_sections == MergeLoop(sections, k - 1)
             section == sections[k]
             same == SelectSeq(unique_sections,
                               LAMBDA u : u.original_name = section.original_name)
         IN  IF Len(same) = 0 THEN Append(unique_sections, section)
             ELSE IF Len(section.items) > Len(same[1].items)
                  THEN Append(SelectSeq(unique_sections,
                                        LAMBDA u : u.original_name # section.original_name),
                              section)
             ELSE unique_sections

MergeSections(sections) == MergeLoop(sections, Len(sections))

\* The list `sections` as it stands before the merge loop: the Strategy 1
\* candidates, then the Strategy 2 candidates.
CandidateSections(text, ord) ==
    LET text_cleaned == _remove_navigation_noise(text)
    IN  HeadingSections(text_cleaned, ord) \o _extract_special_sections(text_cleaned, ord)

_extract_firecrawl_sections(text, ord) == MergeSections(CandidateSections(text, ord))

\* The strings whose set order a call of parse() depends on.
RoomStrings(text) == RoomFindAll(_remove_navigation_noise(text), 1)

\* parse(): the fields of the CanonicalFormat the parser itself computes, and,
\* as a log of the call, the candidate list its segmenter merged and the number
\* of candidates Strategy 1 contributed to it.
ParseRecord(d, ord) ==
    [property_name |-> _extract_real_property_name(d.text, d.property_name),
     url |-> ResolveUrl(d.url),
     sections |-> _extract_firecrawl_sections(d.text, ord),
     candidates |-> CandidateSections(d.text, ord),
     n_heading |-> Len(HeadingSections(_remove_navigation_noise(d.text), ord))]

\* What parse() returns.
Returned(r) == [property_name |-> r.property_name, url |-> r.url, sections |-> r.sections]

-----------------------------------------------------------------------------
(* Inputs of parse(): documents built from blocks of listing text.         *)

MaxBlocks == 2
MaxRuns == 2

Blocks ==
    {"## Amenities" \o NL \o "Gym  Study Room Courtyard Boardroom",
     "## Bills" \o NL \o "Heat  Hydro  Gas  Internet",
     "Payment Policies (2)" \o NL \o "- Pay monthly" \o NL \o "- Pay monthly",
     "## Floor" \o TAB \o "Plan" \o NL \o "Studio 1 Bed 1 Bath",
     "## Room Types" \o NL \o "Suite 2 Bed 2 Bath",
     "## FAQs" \o NL \o "### Is it open?" \o NL \o "Gym  Pool  Sauna",
     "Menu  Login  Sign Up",
     "- Pool"}

Documents ==
    {JoinWith(bs, NL) : bs \in UNION {[1..n -> Blocks] : n \in 1..MaxBlocks}}

ListingUrl == "https://alder.example/property/1"

\* (property_name, url) as the caller supplies them.
GivenFields ==
    {<<None, None>>,
     <<Some(" - Bedroom"), Some("")>>,
     <<Some("Alder House - Kitchen"), Some(ListingUrl)>>,
     <<Some("Alder House"), Some(ListingUrl)>>}

ParseInputs ==
    {[text |-> t, property_name |-> g[1], url |-> g[2]] : t \in Documents, g \in GivenFields}

NoData == [text |-> "", property_name |-> None, url |-> None]

-----------------------------------------------------------------------------
(* Specification of parse(): the parser is called MaxRuns times on `data`. *)

Init ==
    /\ mode = "parse"
    /\ data \in ParseInputs
    /\ runs = <<>>
    /\ cands = <<>>
    /\ merged = <<>>
    /\ jobs_store = <<>>
    /\ calls = <<>>
    /\ response = [status |-> 0, detail |-> "", job_id |-> 0]
    /\ nreq = 0
    /\ scraper = FALSE
    /\ tasks = <<>>
    /\ arg = <<>>
    /\ out = <<>>

Parse ==
    /\ mode = "parse"
    /\ Len(runs) < MaxRuns
    /\ \E ord \in SetOrders(RoomStrings(data.text)) :
          runs' = Append(runs, ParseRecord(data, ord))
    /\ UNCHANGED <<mode, data, cands, merged, jobs_store, calls, response, nreq, scraper, arg, out, tasks>>

Next == Parse

Spec == Init /\ [][Next]_vars


-----------------------------------------------------------------------------
(* Specification of the merge loop on arbitrary candidate sequences.       *)

MaxCands == 3
MaxItems == 2

\* An abstract candidate: a slug and k items; display_name is filled with the
\* candidate's position in the list, which identifies it.
CandNames == {"amenities", "faqs"}
CandItems(k) == [i \in 1..k |-> "item"]

CandidateLists ==
    UNION {{[i \in 1..n |-> PreSection(f[i][1], i, "", CandItems(f[i][2]))] :
               f \in [1..n -> CandNames \X (0..MaxItems)]} : n \in 1..MaxCands}

InitMerge ==
    /\ mode = "merge"
    /\ cands \in CandidateLists
    /\ merged = <<>>
    /\ data = NoData
    /\ runs = <<>>
    /\ jobs_store = <<>>
    /\ calls = <<>>
    /\ response = [status |-> 0, detail |-> "", job_id |-> 0]
    /\ nreq = 0
    /\ scraper = FALSE
    /\ tasks = <<>>
    /\ arg = <<>>
    /\ out = <<>>

Merge ==
    /\ mode = "merge"
    /\ merged = <<>>
    /\ merged' = <<MergeSections(cands)>>
    /\ UNCHANGED <<mode, data, runs, cands, jobs_store, calls, response, nreq, scraper, arg, out, tasks>>

NextMerge == Merge

SpecMerge == InitMerge /\ [][NextMerge]_vars


-----------------------------------------------------------------------------
(* parsers.py: decoded JSON values and parse_json_to_property_data.        *)

\* A Python value as json.loads and the request body deliver it: a record
\* whose one field names its type and holds its value (a dict is a function
\* from its keys).
JNull == [NoneType |-> TRUE]
JStr(s) == [str |-> s]
JInt(n) == [int |-> n]
JList(l) == [list |-> l]
JDict(d) == [dict |-> d]

\* type(x).__name__
TypeOf(x) == CHOOSE t \in DOMAIN x : TRUE

\* bool(x)
PyTruthy(x) ==
    CASE TypeOf(x) = "NoneType" -> FALSE
      [] TypeOf(x) = "str" -> x.str # ""
      [] TypeOf(x) = "int" -> x.int # 0
      [] TypeOf(x) = "list" -> Len(x.list) # 0
      [] TypeOf(x) = "dict" -> DOMAIN x.dict # {}

\* d.get(key)
Get(d, key) == IF key \in DOMAIN d.dict THEN d.dict[key] ELSE JNull

\* d.get(k1) or d.get(k2) or ... or last
RECURSIVE OrChain(_, _, _)
OrChain(d, keys, last) ==
    IF Len(keys) = 0 THEN last
    ELSE IF PyTruthy(Get(d, Head(keys))) THEN Get(d, Head(keys))
    ELSE OrChain(d, Tail(keys), last)

\* The outcome of a call: the exception it raised ("" if none) and the
\* PropertyData it returned, as <<record>> (<<>> if it raised).
Raises(e) == [raised |-> e, pd |-> <<>>]
Returns(name, url) == [raised |-> "", pd |-> <<[property_name |-> name, url |-> url]>>]

\* parse_json_to_property_data on a decoded value.  Of the PropertyData it
\* builds, property_name and url; the other fields are built from keys the
\* sample values do not carry.  A str field given a list or a dict is rejected
\* by the pydantic model (ValidationError, a ValueError).
parse_json_to_property_data(input) ==
    LET has_data == CASE TypeOf(input) = "dict" -> "data" \in DOMAIN input.dict
                      [] TypeOf(input) = "list" ->
                           \E i \in 1..Len(input.list) : input.list[i] = JStr("data")
                      [] TypeOf(input) = "str" -> Contains(input.str, "data")
                      [] OTHER -> FALSE
    IN  IF TypeOf(input) \in {"int", "NoneType"} THEN Raises("TypeError")     \* "data" in data
        ELSE IF has_data /\ TypeOf(input) # "dict" THEN Raises("TypeError")   \* data["data"]
        ELSE
        LET unwrapped == IF has_data /\ TypeOf(input.dict["data"]) = "dict"
                         THEN input.dict["data"] ELSE input
            d == IF TypeOf(unwrapped) = "list" /\ Len(unwrapped.list) > 0
                 THEN unwrapped.list[1] ELSE unwrapped
        IN  IF TypeOf(d) # "dict" THEN Raises("AttributeError")                \* data.get
            ELSE
            LET property_name ==
                    OrChain(d, <<"property_name", "name", "title", "property", "propertyName">>,
                            JStr("Unknown Property"))
                url ==
                    OrChain(d, <<"url", "source_link", "link", "property_url", "website",
                                 "sourceUrl">>, JStr(DefaultUrl))
                provider == OrChain(d, <<"provider", "source", "host", "owner_name">>, JNull)
            IN  IF \/ TypeOf(property_name) # "str"
                   \/ TypeOf(url) # "str"
                   \/ TypeOf(provider) \notin {"str", "NoneType"}
                THEN Raises("ValidationError")
                ELSE Returns(property_name.str, url.str)

-----------------------------------------------------------------------------
(* parsers.py: parse_text_to_property_data.                                *)

\* First index >= i holding a character of `stops`, Len(s)+1 if none.
RunEnd(s, i, stops) ==
    LET k == First(i, Len(s), LAMBDA j : Ch(s, j) \in stops)
    IN  IF k = 0 THEN Len(s) + 1 ELSE k

\* (?:property\s*name|name|title) at p of the lowercased line: the index after
\* the keyword, 0 if it does not match there.
NameKeyEnd(low, p) ==
    IF StartsAt(low, "property", p) /\ StartsAt(low, "name", SkipSpace(low, p + 8))
    THEN SkipSpace(low, p + 8) + 4
    ELSE IF StartsAt(low, "name", p) THEN p + 4
    ELSE IF StartsAt(low, "title", p) THEN p + 5
    ELSE 0

\* (?:property\s*name|name|title)[\s:]+([^\n]+) at p: group(1), None if no match.
\* A separator run that reaches the end of the line gives its last character
\* back to the group.
ExplicitNameAt(line, low, p) ==
    LET e == NameKeyEnd(low, p)
        g == First(e, Len(line), LAMBDA j : ~(IsSpace(Ch(line, j)) \/ Ch(line, j) = ":"))
    IN  IF e = 0 \/ e + 1 > Len(line) THEN None
        ELSE IF ~(IsSpace(Ch(line, e)) \/ Ch(line, e) = ":") THEN None
        ELSE IF g = 0 THEN Some(Ch(line, Len(line)))
        ELSE Some(SubSeq(line, g, Len(line)))

\* re.search of that pattern in one line, IGNORECASE; group(1).strip().
ExplicitName(line) ==
    LET low == Lower(line)
        p == First(1, Len(line), LAMBDA i : ExplicitNameAt(line, low, i).some)
    IN  IF p = 0 THEN None ELSE Some(Strip(ExplicitNameAt(line, low, p).v))

\* ([A-Z][class]+(?:suffix|...)) starting at i, class = [a-zA-Z\s] plus '&' if
\* amp: the index of the last character matched, 0 if no match.  The run is
\* greedy: the last place in it where a suffix starts wins, and there the first
\* suffix of the alternation.
NamePatternAt(s, i, suffixes, amp) ==
    IF ~IsUpper(Ch(s, i)) THEN 0
    ELSE LET cls(c) == IsUpper(c) \/ IsLower(c) \/ IsSpace(c) \/ (amp /\ c = "&")
             r == First(i + 1, Len(s), LAMBDA j : ~cls(Ch(s, j)))
             run_end == IF r = 0 THEN Len(s) ELSE r - 1
             at(e) == {k \in 1..Len(suffixes) : StartsAt(s, suffixes[k], e + 1)}
             ends == {e \in (i + 1)..run_end : at(e) # {}}
         IN  IF ends = {} THEN 0
             ELSE SetMax(ends) + Len(suffixes[SetMin(at(SetMax(ends)))])

\* re.search of the pattern in s; group(1).strip().
NamePattern(s, suffixes, amp) ==
    LET i == First(1, Len(s), LAMBDA j : NamePatternAt(s, j, suffixes, amp) # 0)
    IN  IF i = 0 THEN None
        ELSE Some(Strip(SubSeq(s, i, NamePatternAt(s, i, suffixes, amp))))

text_suffixes ==
    <<"Court", "House", "Hall", "Residence", "Accommodation", "Property", "Living",
      "Student", "Apartments", "Apartment">>

\* `name` while it is a name other than "Unknown Property", else `next`: a later
\* strategy runs while property_name == "Unknown Property".
OrElse(name, next) == IF name.some /\ name.v # "Unknown Property" THEN name ELSE next

\* Strategy 1: the first of the first 20 lines with an explicit name of 4..99
\* characters.
TextNameExplicit(lines) ==
    LET l20 == Take(lines, 20)
    IN  FirstOr([i \in 1..Len(l20) |-> ExplicitName(l20[i])],
                LAMBDA c : c.some /\ Len(c.v) > 3 /\ Len(c.v) < 100, None)

\* Strategy 2: the first of the first 5 lines that, stripped, has 4..99
\* characters and none of the excluded prefixes.
TextNameFirstLine(lines) ==
    LET l5 == Take(lines, 5)
    IN  FirstOr([i \in 1..Len(l5) |-> Some(Strip(l5[i]))],
                LAMBDA c : /\ Len(c.v) > 3 /\ Len(c.v) < 100
                           /\ \A p \in {"http", "www", "Location", "URL", "Description"} :
                                  ~StartsAt(c.v, p, 1),
                None)

\* Strategy 3: the first of the first 30 lines holding a property-like name.
TextNamePattern(lines) ==
    LET l30 == Take(lines, 30)
    IN  FirstOr([i \in 1..Len(l30) |-> NamePattern(l30[i], text_suffixes, TRUE)],
                LAMBDA c : c.some, None)

\* The three name strategies of parse_text_to_property_data; a strategy runs
\* while the name still is "Unknown Property".
TextName(lines) ==
    With(OrElse(TextNameExplicit(lines),
                OrElse(TextNameFirstLine(lines), TextNamePattern(lines))),
         LAMBDA n : IF n.some THEN n.v ELSE "Unknown Property")

\* https?://[^\s\n]+|www\.[^\s\n]+ at p, IGNORECASE: the index after the
\* match, 0 if it does not match there.
TextUrlAt(line, low, p) ==
    LET h == IF StartsAt(low, "https://", p) THEN p + 8
             ELSE IF StartsAt(low, "http://", p) THEN p + 7
             ELSE IF StartsAt(low, "www.", p) THEN p + 4
             ELSE 0
    IN  IF h = 0 \/ h > Len(line) THEN 0
        ELSE IF IsSpace(Ch(line, h)) THEN 0
        ELSE RunEnd(line, h, {" ", TAB, NL})

\* The first line holding a URL gives the url; 'https://' is put before one
\* that does not start with 'http'.
TextUrl(lines) ==
    LET hit(i) == LET low == Lower(lines[i])
                  IN  First(1, Len(lines[i]), LAMBDA p : TextUrlAt(lines[i], low, p) # 0)
        i == First(1, Len(lines), LAMBDA k : hit(k) # 0)
    IN  IF i = 0 THEN DefaultUrl
        ELSE LET line == lines[i]
                 url == SubSeq(line, hit(i), TextUrlAt(line, Lower(line), hit(i)) - 1)
             IN  IF StartsAt(url, "http", 1) THEN url ELSE "https://" \o url

parse_text_to_property_data(text) ==
    LET lines == SplitLines(text)
    IN  Returns(TextName(lines), TextUrl(lines))

-----------------------------------------------------------------------------
(* parsers.py: parse_markdown_to_property_data.                            *)

\* re.match(r'^#\s+(.+?)(?:\s*\{|$)', line) with `hashes` for the '#': group(1),
\* None if no match.  The lazy group ends before the first '{' (and the spaces
\* before it) or at the end of the line.
HeadingName(line, hashes) ==
    LET n == Len(hashes)
        a == SkipSpace(line, n + 1)
        brace(j) == LET k == SkipSpace(line, j) IN k <= Len(line) /\ Ch(line, k) = "{"
        q == First(a + 1, Len(line), brace)
    IN  IF ~StartsAt(line, hashes, 1) \/ a = n + 1 THEN None
        ELSE IF a > Len(line)
             THEN (IF a - (n + 1) >= 2 THEN Some(Ch(line, Len(line))) ELSE None)
        ELSE Some(SubSeq(line, a, IF q = 0 THEN Len(line) ELSE q - 1))

\* \*\*([^*]+)\*\* at i: the index of the closing '**', 0 if no match.
BoldEnd(s, i) ==
    LET q == RunEnd(s, i + 2, {"*"})
    IN  IF StartsAt(s, "**", i) /\ q > i + 2 /\ StartsAt(s, "**", q) THEN q ELSE 0

\* re.sub(r'\*\*([^*]+)\*\*', r'\1', s)
RECURSIVE StripBold(_)
StripBold(s) ==
    LET p == First(1, Len(s), LAMBDA i : BoldEnd(s, i) # 0)
    IN  IF p = 0 THEN s
        ELSE SubSeq(s, 1, p - 1) \o SubSeq(s, p + 2, BoldEnd(s, p) - 1)
                 \o StripBold(SubSeq(s, BoldEnd(s, p) + 2, Len(s)))

\* \[([^\]]+)\]\(([^\)]+)\) at i: <<index of ']', index of ')'>>, <<>> if no match.
LinkAt(s, i) ==
    LET q == RunEnd(s, i + 1, {"]"})
        r == RunEnd(s, q + 2, {")"})
    IN  IF /\ i <= Len(s) /\ Ch(s, i) = "["
           /\ q > i + 1 /\ StartsAt(s, "](", q)
           /\ r > q + 2 /\ r <= Len(s)
        THEN <<q, r>> ELSE <<>>

\* re.sub(r'\[([^\]]+)\]\([^\)]+\)', r'\1', s)
RECURSIVE StripLinks(_)
StripLinks(s) ==
    LET p == First(1, Len(s), LAMBDA i : LinkAt(s, i) # <<>>)
    IN  IF p = 0 THEN s
        ELSE SubSeq(s, 1, p - 1) \o SubSeq(s, p + 1, LinkAt(s, p)[1] - 1)
                 \o StripLinks(SubSeq(s, LinkAt(s, p)[2] + 1, Len(s)))

\* re.search(r'!\[([^\]]+)\]', markdown): group(1), None if no match.
AltText(s) ==
    LET ok(i) == LET q == RunEnd(s, i + 2, {"]"})
                 IN  StartsAt(s, "![", i) /\ q > i + 2 /\ q <= Len(s)
        p == First(1, Len(s), ok)
    IN  IF p = 0 THEN None ELSE Some(SubSeq(s, p + 2, RunEnd(s, p + 2, {"]"}) - 1))

markdown_suffixes == <<"Court", "House", "Hall", "Residence", "Accommodation", "Property">>

\* The first of the lines that is a heading of the given level: its name with
\* bold and link markup removed, None if there is no such line.
MarkdownHeading(lines, hashes) ==
    With(FirstOr([i \in 1..Len(lines) |-> HeadingName(lines[i], hashes)],
                 LAMBDA c : c.some, None),
         LAMBDA c : IF c.some THEN Some(StripLinks(StripBold(Strip(c.v)))) ELSE None)

\* The first image's alt text, stripped, if it has 6..99 characters.
MarkdownAlt(markdown) ==
    With(AltText(markdown),
         LAMBDA alt : IF alt.some /\ Len(Strip(alt.v)) > 5 /\ Len(Strip(alt.v)) < 100
                      THEN Some(Strip(alt.v)) ELSE None)

\* The name strategies of parse_markdown_to_property_data: first H1, first H2,
\* the first image's alt text, a name-like phrase in the first 1000 characters.
\* (The second name pattern matches only where the first one does.)
MarkdownName(markdown) ==
    LET lines == Take(SplitLines(markdown), 50)
    IN  With(OrElse(MarkdownHeading(lines, "#"),
                    OrElse(MarkdownHeading(lines, "##"),
                           OrElse(MarkdownAlt(markdown),
                                  NamePattern(Take(markdown, 1000), markdown_suffixes, FALSE)))),
             LAMBDA n : IF n.some THEN n.v ELSE "Unknown Property")

url_delims == {" ", TAB, NL, ")", "\"", "'", "<", ">"}

\* The four URL syntaxes of url_patterns, by position in that list, at p of a
\* line: <<the captured text, the index after the match>>, <<>> if no match.
UrlMatchAt(s, pat, p) ==
    CASE pat = 1 ->                                  \* href=["\']([^"\']+)["\']
           LET q == RunEnd(s, p + 6, {"\"", "'"})
           IN  IF /\ StartsAt(s, "href=", p)
                  /\ (StartsAt(s, "\"", p + 5) \/ StartsAt(s, "'", p + 5))
                  /\ q > p + 6 /\ q <= Len(s)
               THEN <<SubSeq(s, p + 6, q - 1), q + 1>> ELSE <<>>
      [] pat = 2 ->                                  \* \[([^\]]+)\]\(([^\)]+)\)
           LET m == LinkAt(s, p)
           IN  IF m = <<>> THEN <<>> ELSE <<SubSeq(s, m[1] + 2, m[2] - 1), m[2] + 1>>
      [] pat = 3 ->                                  \* https?://[^\s\n\)"\'<>]+
           LET h == IF StartsAt(s, "https://", p) THEN p + 8
                    ELSE IF StartsAt(s, "http://", p) THEN p + 7 ELSE 0
               e == RunEnd(s, h, url_delims)
           IN  IF h # 0 /\ e > h THEN <<SubSeq(s, p, e - 1), e>> ELSE <<>>
      [] pat = 4 ->                                  \* www\.[^\s\n\)"\'<>]+
           LET e == RunEnd(s, p + 4, url_delims)
           IN  IF StartsAt(s, "www.", p) /\ e > p + 4 THEN <<SubSeq(s, p, e - 1), e>> ELSE <<>>

\* re.finditer(pattern, line): the captured texts, left to right.
RECURSIVE UrlMatches(_, _, _)
UrlMatches(s, pat, from) ==
    With(FirstOr([i \in 1..Len(s) |-> IF i < from THEN <<>> ELSE UrlMatchAt(s, pat, i)],
                 LAMBDA m : m # <<>>, <<>>),
         LAMBDA m : IF m = <<>> THEN <<>> ELSE <<m[1]>> \o UrlMatches(s, pat, m[2]))

\* potential_url.strip('()[]"\'').split('?')[0].split('#')[0]
CleanUrl(raw) ==
    LET keep == {i \in 1..Len(raw) : Ch(raw, i) \notin {"(", ")", "[", "]", "\"", "'"}}
        core == IF keep = {} THEN "" ELSE SubSeq(raw, SetMin(keep), SetMax(keep))
    IN  SubSeq(core, 1, RunEnd(core, 1, {"?", "#"}) - 1)

url_skip_keywords ==
    <<"logo", "icon", "cdn", "facebook", "twitter", "instagram", "linkedin", "youtube",
      "pinterest", "svg", "png", "jpg", "jpeg", "webp", "gif", "favicon", "apple-touch",
      "stylesheet", "script", "font", "assets", "files">>

prefer_keywords ==
    <<"property", "accommodation", "student", "booking", "sterling", "iq",
      "universityliving.com", "amberstudent.com", "unilodgers.com", "student.com",
      "casita.com">>

\* One match of a pattern of base priority `base`: <<[url, priority]>>, or <<>>
\* if the URL is relative or holds a skip keyword.
UrlCandidate(raw, base) ==
    LET c == CleanUrl(raw)
        u == IF ~StartsAt(c, "http", 1) /\ StartsAt(c, "www.", 1) THEN "https://" \o c ELSE c
        url_lower == Lower(u)
    IN  IF ~StartsAt(c, "http", 1) /\ ~StartsAt(c, "www.", 1) /\ ~Contains(c, "://") THEN <<>>
        ELSE IF ContainsAny(url_lower, url_skip_keywords) THEN <<>>
        ELSE <<[url |-> u,
                priority |->
                    base
                    + (IF ContainsAny(url_lower, prefer_keywords) THEN 10 ELSE 0)
                    + (IF Contains(url_lower, "/property")
                          \/ Contains(url_lower, "/accommodation") THEN 5 ELSE 0)
                    - (IF ContainsAny(url_lower, <<".svg", ".png", ".jpg", ".jpeg", ".gif",
                                                   ".webp", ".ico">>) THEN 10 ELSE 0)
                    - (IF ContainsAny(url_lower, <<"cdn", "assets", "files">>)
                       THEN 8 ELSE 0)]>>

\* The candidates of the matches `ms` of one pattern in one line.
MatchCandidates(ms, base) == Flatten([k \in 1..Len(ms) |-> UrlCandidate(ms[k], base)])

\* url_candidates: line by line, pattern by pattern, match by match.
UrlCandidates(lines) ==
    Flatten([i \in 1..Len(lines) |->
        Flatten([pat \in 1..4 |-> MatchCandidates(UrlMatches(lines[i], pat, 1), 4 - pat)])])

\* The breadcrumb pattern in one line, IGNORECASE: an absolute URL with a
\* listing keyword after at least one character of its body; <<url>> or <<>>.
Breadcrumb(line) ==
    LET low == Lower(line)
        kws == <<"property", "accommodation", "student", "booking", "universityliving",
                 "amberstudent">>
        body(p) == IF StartsAt(low, "https://", p) THEN p + 8
                   ELSE IF StartsAt(low, "http://", p) THEN p + 7 ELSE 0
        ok(p) == /\ body(p) # 0
                 /\ LET e == RunEnd(line, body(p), url_delims)
                    IN  \E k \in 1..Len(kws) :
                            \E j \in (body(p) + 1)..(e - Len(kws[k])) :
                                StartsAt(low, kws[k], j)
        p0 == First(1, Len(line), ok)
    IN  IF p0 = 0 THEN <<>> ELSE <<SubSeq(line, p0, RunEnd(line, body(p0), url_delims) - 1)>>

\* A variant of the selection with a plausible slip: of the candidates of the
\* highest priority the last one is taken (an unstable or ascending sort).
BestUrlLast(url_candidates) ==
    IF Len(url_candidates) = 0 THEN DefaultUrl
    ELSE LET top == SetMax({url_candidates[i].priority : i \in 1..Len(url_candidates)})
         IN  url_candidates[SetMax({i \in 1..Len(url_candidates) :
                                       url_candidates[i].priority = top})].url

\* url_candidates.sort(key=priority, reverse=True), [0][0]: the first candidate
\* of the highest priority (the sort is stable); the default without candidates.
BestUrl(url_candidates) ==
    IF Len(url_candidates) = 0 THEN DefaultUrl
    ELSE LET top == SetMax({url_candidates[i].priority : i \in 1..Len(url_candidates)})
         IN  FirstOr(url_candidates, LAMBDA c : c.priority = top, url_candidates[1]).url

\* The fallback scan of the first 200 lines, made when url is the default or
\* looks like an image or a CDN address.
FallbackUrl(url, l200) ==
    IF \/ url = DefaultUrl
       \/ ContainsAny(Lower(url), <<"svg", "png", "jpg", "jpeg", "gif", "cdn", "files">>)
    THEN With(FirstOr([i \in 1..Len(l200) |-> Breadcrumb(l200[i])],
                      LAMBDA b : /\ b # <<>>
                                 /\ ~ContainsAny(Lower(b[1]),
                                                 <<".svg", ".png", ".jpg", ".jpeg", ".gif",
                                                   ".webp">>),
                      <<>>),
              LAMBDA b : IF b = <<>> THEN url ELSE b[1])
    ELSE url

\* URL resolution of parse_markdown_to_property_data: the best candidate, then
\* the fallback scan.
MarkdownUrl(lines) == FallbackUrl(BestUrl(UrlCandidates(lines)), Take(lines, 200))

parse_markdown_to_property_data(markdown) ==
    Returns(MarkdownName(markdown), MarkdownUrl(SplitLines(markdown)))

-----------------------------------------------------------------------------
(* parsers.py: parse_input_to_property_data.                               *)

ListingJson ==
    JDict([name |-> JStr("Alder House"), url |-> JStr(ListingUrl)])

\* json.loads on the texts the requests carry: <<value>>, or <<>> where it
\* raises JSONDecodeError.
json_loads(text) ==
    CASE text = "{\"name\": \"Alder House\", \"url\": \"https://alder.example/property/1\"}"
           -> <<ListingJson>>
      [] text = "{\"data\": {\"title\": \"Birch Hall\", \"url\": \"\"}}"
           -> <<JDict([data |-> JDict([title |-> JStr("Birch Hall"), url |-> JStr("")])])>>
      [] text = "{\"name\": [\"Alder\"]}" -> <<JDict([name |-> JList(<<JStr("Alder")>>)])>>
      [] text = "[]" -> <<JList(<<>>)>>
      [] text = "[1]" -> <<JList(<<JInt(1)>>)>>
      [] text = "5" -> <<JInt(5)>>
      [] text = "\"Alder House\"" -> <<JStr("Alder House")>>
      [] OTHER -> <<>>

\* re.search(r'^#+\s+', text, re.MULTILINE) or re.search(r'\[([^\]]+)\]\(', text)
IsMarkdown(text) ==
    \/ \E i \in 1..Len(text) :
          /\ AtLineStart(text, i) /\ Ch(text, i) = "#"
          /\ LET e == First(i, Len(text), LAMBDA j : Ch(text, j) # "#")
             IN  e # 0 /\ IsSpace(Ch(text, e))
    \/ \E i \in 1..Len(text) :
          /\ Ch(text, i) = "["
          /\ LET q == RunEnd(text, i + 1, {"]"})
             IN  q > i + 1 /\ StartsAt(text, "](", q)

\* The parser a string input reaches: <<"json", value>>, <<"markdown", text>>,
\* <<"text", text>>, or <<"ValueError">> where the declared JSON does not parse.
RouteText(text, loaded, input_format) ==
    IF input_format = "auto"
    THEN (IF (StartsAt(text, "{", 1) \/ StartsAt(text, "[", 1)) /\ loaded # <<>>
          THEN <<"json", loaded[1]>>
          ELSE IF IsMarkdown(text) THEN <<"markdown", JStr(text)>>
          ELSE <<"text", JStr(text)>>)
    ELSE IF input_format = "json"
    THEN (IF loaded # <<>> THEN <<"json", loaded[1]>> ELSE <<"ValueError">>)
    ELSE IF input_format = "markdown" THEN <<"markdown", JStr(text)>>
    ELSE <<"text", JStr(text)>>

\* A variant with a plausible slip: explicitly declared JSON that does not
\* parse is handed to the text parser, as the auto-detection does.
RouteTextLenient(text, loaded, input_format) ==
    IF input_format \in {"auto", "json"}
       /\ (input_format = "json" \/ StartsAt(text, "{", 1) \/ StartsAt(text, "[", 1))
       /\ loaded # <<>>
    THEN <<"json", loaded[1]>>
    ELSE IF input_format = "markdown" \/ (input_format = "auto" /\ IsMarkdown(text))
    THEN <<"markdown", JStr(text)>>
    ELSE <<"text", JStr(text)>>

\* The parser an input reaches.
Route(input, input_format) ==
    IF TypeOf(input) = "dict" THEN <<"json", input>>
    ELSE IF TypeOf(input) # "str" THEN <<"ValueError">>
    ELSE RouteText(Strip(input.str), json_loads(Strip(input.str)), input_format)

RouteLenient(input, input_format) ==
    IF TypeOf(input) = "dict" THEN <<"json", input>>
    ELSE IF TypeOf(input) # "str" THEN <<"ValueError">>
    ELSE RouteTextLenient(Strip(input.str), json_loads(Strip(input.str)), input_format)

\* The call parse_input_to_property_data makes, or the ValueError it raises.
Dispatch(route) ==
    CASE route[1] = "json" -> parse_json_to_property_data(route[2])
      [] route[1] = "markdown" -> parse_markdown_to_property_data(route[2].str)
      [] route[1] = "text" -> parse_text_to_property_data(route[2].str)
      [] OTHER -> Raises("ValueError")

parse_input_lenient(input, input_format) == Dispatch(RouteLenient(input, input_format))

parse_input_to_property_data(input, input_format) == Dispatch(Route(input, input_format))

-----------------------------------------------------------------------------
(* app.py: POST /api/compare-json.                                         *)

MaxRequests == 2

\* One side of a ComparisonRequest: *_json, *_data, *_format.
Side(json, text, format) == [json |-> json, data |-> text, format |-> format]

BrokenJson == "{\"name\": "
PlainText == "Alder House" \o NL \o "Visit www.alder.example today"

Sides ==
    {Side(JNull, JNull, JNull),
     Side(ListingJson, JNull, JNull),
     Side(JDict([name |-> JList(<<JStr("Alder")>>)]), JNull, JNull),
     Side(ListingJson, JStr(BrokenJson), JStr("json")),
     Side(JDict(<<>>), JStr(PlainText), JStr("text")),
     Side(JNull, JStr("{\"name\": \"Alder House\", \"url\": \"https://alder.example/property/1\"}"),
          JNull),
     Side(JNull, JStr("{\"data\": {\"title\": \"Birch Hall\", \"url\": \"\"}}"), JStr("json")),
     Side(JNull, JStr("{\"name\": [\"Alder\"]}"), JNull),
     Side(JNull, JStr("[]"), JNull),
     Side(JNull, JStr("[1]"), JStr("json")),
     Side(JNull, JStr("5"), JStr("json")),
     Side(JNull, JStr(BrokenJson), JStr("json")),
     Side(JNull, JStr(BrokenJson), JStr("")),
     Side(JNull, JStr(PlainText), JStr("markdown")),
     Side(JNull, JStr(" " \o PlainText), JNull),
     Side(JNull, JStr("# **Alder** House {#top}" \o NL \o "[Book](" \o ListingUrl \o "?ref=1)"),
          JNull),
     Side(JNull, JStr(ListingUrl), JNull),
     Side(JNull, JStr(ListingUrl), JStr("json"))}

Requests == [amber : Sides, competitor : Sides]

\* What scraper.scrape_to_property_data delivers for a URL: <<dict>>, or <<>>
\* when it raises.
ScrapeOutcomes == {<<>>, <<JDict([property_name |-> JStr("Alder House"), url |-> JStr(ListingUrl)])>>}

is_url(text) ==
    LET t == Strip(text)
    IN  StartsAt(t, "http://", 1) \/ StartsAt(t, "https://", 1) \/ StartsAt(t, "www.", 1)

\* What the scraper can deliver for a side; <<>> also where it is not asked.
Scraped(side, scraper_on) ==
    IF ~PyTruthy(side.json) /\ PyTruthy(side.data) /\ is_url(side.data.str) /\ scraper_on
    THEN ScrapeOutcomes ELSE {<<>>}

\* The calls of parse_input_to_property_data a request can make, each
\* evaluated once.
ParseArgs ==
    {<<s.json, "json">> : s \in {s \in Sides : PyTruthy(s.json)}}
        \cup {<<s.data, IF PyTruthy(s.format) THEN s.format.str ELSE "auto">> :
                 s \in {s \in Sides : PyTruthy(s.data)}}
        \cup {<<o[1], "json">> : o \in ScrapeOutcomes \ {<<>>}}

\* The outcome of each of those calls.
ParseTable == [a \in ParseArgs |-> parse_input_to_property_data(a[1], a[2])]

\* The record of one call: its arguments and its outcome.
CallRecord(input, input_format, outcome) ==
    [data |-> input, input_format |-> input_format,
     raised |-> outcome.raised, pd |-> outcome.pd]

Call(input, input_format) ==
    CallRecord(input, input_format, ParseTable[<<input, input_format>>])

\* What a side's block does with the outcome of its call: an error of the
\* scraped data's parse leaves the block as the HTTPException of the scrape.
SideOutcome(c, via_scraper) ==
    [calls |-> <<c>>,
     raised |-> IF via_scraper /\ c.raised # "" THEN "HTTPException" ELSE c.raised,
     pd |-> c.pd]

\* "Handle Amber data" / "Handle Competitor data": the calls made, the exception
\* that leaves the block ("" if none) and the PropertyData (<<>> for None).
HandleSide(side, scraper_on, scraped) ==
    LET via_scraper == /\ ~PyTruthy(side.json) /\ PyTruthy(side.data)
                       /\ is_url(side.data.str) /\ scraper_on
    IN  IF ~PyTruthy(side.json) /\ ~PyTruthy(side.data)
        THEN [calls |-> <<>>, raised |-> "", pd |-> <<>>]
        ELSE IF via_scraper /\ scraped = <<>>
        THEN [calls |-> <<>>, raised |-> "HTTPException", pd |-> <<>>]
        ELSE SideOutcome(
                 Call(IF PyTruthy(side.json) THEN side.json
                      ELSE IF via_scraper THEN scraped[1] ELSE side.data,
                      IF PyTruthy(side.json) \/ via_scraper THEN "json"
                      ELSE IF PyTruthy(side.format) THEN side.format.str ELSE "auto"),
                 via_scraper)

\* The except clauses of start_comparison_json, in order.
ErrorResponse(raised) ==
    IF raised \in {"ValueError", "ValidationError"}
    THEN [status |-> 400, detail |-> "Invalid input format", job_id |-> 0]
    ELSE IF raised = "HTTPException"
    THEN [status |-> 400, detail |-> "Failed to scrape", job_id |-> 0]
    ELSE [status |-> 400, detail |-> "Failed to parse input", job_id |-> 0]

\* The response to the outcomes a and c of the two sides, and <<property_name>>
\* of the job entry created (<<>> if none).
Respond(a, c, saved, job_id) ==
    IF a.raised # ""
    THEN [calls |-> a.calls, response |-> ErrorResponse(a.raised), job |-> <<>>]
    ELSE IF c.raised # ""
    THEN [calls |-> a.calls \o c.calls, response |-> ErrorResponse(c.raised), job |-> <<>>]
    ELSE IF a.pd = <<>> \/ c.pd = <<>>
    THEN [calls |-> a.calls \o c.calls,
          response |-> [status |-> 400,
                        detail |-> "Both amber and competitor data are required",
                        job_id |-> 0],
          job |-> <<>>]
    ELSE IF ~saved
    THEN [calls |-> a.calls \o c.calls,
          response |-> [status |-> 500, detail |-> "", job_id |-> 0],
          job |-> <<>>]
    ELSE [calls |-> a.calls \o c.calls,
          response |-> [status |-> 200, detail |-> "", job_id |-> job_id],
          job |-> <<a.pd[1].property_name>>]

\* start_comparison_json and, on success, _process_comparison: the calls made,
\* the response, and the job entry created.
\* saved: whether _process_comparison could write the two upload files.
start_comparison_json(request_data, scraper_on, scraped_a, scraped_c, saved, job_id) ==
    With([s \in {"amber", "competitor"} |->
             HandleSide(request_data[s], scraper_on,
                        IF s = "amber" THEN scraped_a ELSE scraped_c)],
         LAMBDA h : Respond(h["amber"], h["competitor"], saved, job_id))

NoResponse == [status |-> 0, detail |-> "", job_id |-> 0]

InitInput ==
    /\ mode = "api"
    /\ scraper \in BOOLEAN
    /\ tasks = <<>>
    /\ arg = <<>>
    /\ out = <<>>
    /\ jobs_store = <<>>
    /\ calls = <<>>
    /\ response = NoResponse
    /\ nreq = 0
    /\ data = NoData
    /\ runs = <<>>
    /\ cands = <<>>
    /\ merged = <<>>

\* The state after a request that was handled with result r.
Handled(r, job_id) ==
    /\ calls' = r.calls
    /\ response' = r.response
    /\ jobs_store' =
          IF r.job = <<>> THEN jobs_store
          ELSE jobs_store @@
               (job_id :> [job_id |-> job_id,
                           status |-> "queued",
                           property_name |-> r.job[1],
                           progress |-> 0,
                           current_stage |-> "queued",
                           error |-> None,
                           result_path |-> None])

\* One POST /api/compare-json, handled to its response.  The job id (a fresh
\* uuid4 in the code) is the number of the request.
StartComparisonJson ==
    /\ mode = "api"
    /\ nreq < MaxRequests
    /\ \E request_data \in Requests, saved \in BOOLEAN :
       \E scraped_a \in Scraped(request_data.amber, scraper),
          scraped_c \in Scraped(request_data.competitor, scraper) :
          Handled(start_comparison_json(request_data, scraper, scraped_a, scraped_c,
                                        saved, nreq + 1),
                  nreq + 1)
    /\ nreq' = nreq + 1
    /\ UNCHANGED <<mode, scraper, data, runs, cands, merged, arg, out, tasks>>

NextInput == StartComparisonJson

SpecInput == InitInput /\ [][NextInput]_vars


-----------------------------------------------------------------------------
(* Properties of parse() and of the merge loop.                            *)

STANDARD_SECTIONS ==
    {"hero_media", "property_overview", "address_core_details", "room_types", "pricing",
     "offers_deals", "amenities", "bills_included", "location_transport", "nearby_places",
     "payment_options", "booking_process", "cancellation_policies", "trust_badges", "faqs",
     "reviews_ratings", "contact_support", "similar_properties", "highlights",
     "safety_security", "company_info"}

RunIds == 1..Len(runs)

OneSectionPerSlug(sections) ==
    \A i, j \in 1..Len(sections) :
        i # j => sections[i].original_name # sections[j].original_name

\* C1: the list the section segmenter returns after merging the heading-span
\* candidates and the special-case candidates holds at most one section per slug.
C1_OneSectionPerSlug == \A r \in RunIds : OneSectionPerSlug(runs[r].sections)

\* C1 witness: a call whose candidate list held the same slug from a heading
\* span and from a special case.
C1_Witness ==
    \E r \in RunIds :
        \E i \in 1..runs[r].n_heading :
            \E j \in (runs[r].n_heading + 1)..Len(runs[r].candidates) :
                runs[r].candidates[i].original_name = runs[r].candidates[j].original_name

NoDuplicates(items) == \A i, j \in 1..Len(items) : i # j => items[i] # items[j]

\* Items are listed in the order in which they first appear in the section's text.
InOrderOfAppearance(section) ==
    \A i, j \in 1..Len(section.items) :
        i < j => IndexFrom(section.content, section.items[i], 1)
                     <= IndexFrom(section.content, section.items[j], 1)

\* C2: in every section of the final record the items list has at most 50
\* entries, holds no two equal strings, and lists the items in order of first
\* appearance.
C2_ItemsCappedUniqueOrdered ==
    \A r \in RunIds :
        \A k \in 1..Len(runs[r].sections) :
            LET section == runs[r].sections[k]
            IN  /\ Len(section.items) <= ItemsCap
                /\ NoDuplicates(section.items)
                /\ InOrderOfAppearance(section)

IsLowerSnake(slug) ==
    \A i \in 1..Len(slug) : IsLower(Ch(slug, i)) \/ IsDigit(Ch(slug, i)) \/ Ch(slug, i) = "_"

\* C3: every section's slug is one of the 21 taxonomy slugs or is lowercase and
\* underscore-only (no uppercase, no punctuation, no whitespace).
C3_SlugInTaxonomyOrSnake ==
    \A r \in RunIds :
        \A k \in 1..Len(runs[r].sections) :
            \/ runs[r].sections[k].original_name \in STANDARD_SECTIONS
            \/ IsLowerSnake(runs[r].sections[k].original_name)

\* C4: two calls of parse() on the same input return the same record, sections
\* and items in the same order.
C4_Deterministic ==
    \A a, b \in RunIds : Returned(runs[a]) = Returned(runs[b])

\* C7: for a text shorter than 50 characters parse() returns a record without
\* sections.
C7_ShortTextNoSections ==
    \A r \in RunIds : Len(data.text) < 50 => Len(runs[r].sections) = 0

\* C8: field resolution returns a non-empty property_name and a non-empty url.
C8_NameAndUrlNonEmpty ==
    \A r \in RunIds : runs[r].property_name # "" /\ runs[r].url # ""

\* The four strategies of the cascade, each on its own.
Strategy(n, content, section_name, ord) ==
    CASE n = 1 -> _extract_items_from_text(content)
      [] n = 2 -> SpaceSeparatedItems(content)
      [] n = 3 -> ShortLineItems(content)
      [] n = 4 -> FaqItems(content, section_name) \o RoomItems(content, section_name, ord)

\* C10: once a strategy of the cascade yields 3 or more items, the list returned
\* for a heading-span section consists of exactly that strategy's deduplicated
\* items: no other strategy contributes.
C10_FirstAcceptedStrategyOnly ==
    \A r \in RunIds :
        \A k \in 1..runs[r].n_heading :
            LET c == runs[r].candidates[k]
                ord == c.items
                acc == {n \in 1..4 :
                           Len(Strategy(n, c.content, c.original_name, ord)) >= MinAccepted}
            IN  acc # {} =>
                    Range(c.items) =
                        Range(DedupItems(Strategy(SetMin(acc), c.content, c.original_name, ord)))

\* C9: for every slug the merge keeps the earliest candidate among those with the
\* most items: first discovered stays, only a strictly larger one replaces it.
C9_EarliestLargestWins ==
    merged # <<>> =>
        \A name \in {cands[i].original_name : i \in 1..Len(cands)} :
            LET idx == {i \in 1..Len(cands) : cands[i].original_name = name}
                most == SetMax({Len(cands[i].items) : i \in idx})
                w == SetMin({i \in idx : Len(cands[i].items) = most})
                kept == SelectSeq(merged[1], LAMBDA u : u.original_name = name)
            IN  kept = <<cands[w]>>

\* C9 witness: the loop has run on a list in which a later candidate of a slug
\* had more items than the first, and a still later one as many as that.
C9_Witness ==
    /\ merged # <<>>
    /\ \E i, j, k \in 1..Len(cands) :
          /\ i < j /\ j < k
          /\ cands[i].original_name = cands[j].original_name
          /\ cands[j].original_name = cands[k].original_name
          /\ Len(cands[i].items) < Len(cands[j].items)
          /\ Len(cands[j].items) = Len(cands[k].items)

-----------------------------------------------------------------------------
(* Properties of parse_input_to_property_data and of /api/compare-json.    *)

\* A call on a string declared 'json' that json.loads rejects.
DeclaredJsonUnparsable(c) ==
    /\ c.input_format = "json"
    /\ TypeOf(c.data) = "str"
    /\ json_loads(Strip(c.data.str)) = <<>>

\* C5: a call of parse_input_to_property_data on a string or a dict raises only
\* when the format was declared 'json' and the text does not parse; every other
\* call returns a PropertyData.
C5_RaisesOnlyForDeclaredJson ==
    \A k \in 1..Len(calls) :
        /\ calls[k].raised # "" => DeclaredJsonUnparsable(calls[k])
        /\ calls[k].raised = "" => Len(calls[k].pd) = 1

\* C6: a call on a string declared 'json' that does not parse raises ValueError
\* and returns no record; the request is answered 400 'Invalid input format'
\* and gets no entry in the job store.
C6_DeclaredJsonRejected ==
    \A k \in 1..Len(calls) :
        DeclaredJsonUnparsable(calls[k]) =>
            /\ calls[k].raised = "ValueError"
            /\ calls[k].pd = <<>>
            /\ response.status = 400
            /\ response.detail = "Invalid input format"
            /\ response.job_id = 0
            /\ nreq \notin DOMAIN jobs_store

\* C6 witness: a request carrying unparsable declared JSON has been answered
\* while the store held the job of an earlier request.
C6_Witness ==
    /\ \E k \in 1..Len(calls) : DeclaredJsonUnparsable(calls[k])
    /\ response.status = 400
    /\ DOMAIN jobs_store # {}

-----------------------------------------------------------------------------
(* Specification of _infer_section_name: one call on a heading.            *)

HeadingTerms ==
    <<"Amenities", "Room Types", "Pricing", "FAQ", "About", "Location", "Nearby",
      "Bills", "Payment", "Cancellation Policies", "Offers", "Reviews", "Contact",
      "Key Features", "Lobby", "Gallery">>

\* A heading names one term or two.
Headings ==
    Range(HeadingTerms) \cup
    {HeadingTerms[i] \o " & " \o HeadingTerms[j] :
        <<i, j>> \in {p \in (1..Len(HeadingTerms)) \X (1..Len(HeadingTerms)) : p[1] # p[2]}}

\* The variables no single-function specification uses.
Unused ==
    /\ data = NoData
    /\ runs = <<>>
    /\ cands = <<>>
    /\ merged = <<>>
    /\ jobs_store = <<>>
    /\ calls = <<>>
    /\ response = NoResponse
    /\ nreq = 0
    /\ scraper = FALSE
    /\ tasks = <<>>

InitSlug ==
    /\ mode = "slug"
    /\ arg \in {<<h>> : h \in Headings}
    /\ out = <<>>
    /\ Unused

InferSectionName ==
    /\ mode = "slug"
    /\ out = <<>>
    /\ out' = <<_infer_section_name(arg[1])>>
    /\ UNCHANGED <<mode, data, runs, cands, merged, jobs_store, calls, response, nreq,
                   scraper, arg, tasks>>

NextSlug == InferSectionName

SpecSlug == InitSlug /\ [][NextSlug]_vars

-----------------------------------------------------------------------------
(* Properties of _infer_section_name.                                      *)

\* The keyword groups in the priority order and with the slugs the
\* specification document gives them.  The combined bills-and-payment group
\* has no slug of the taxonomy named for it and is left out.
TaxonomyGroups ==
    << <<{"amenities", "amenity"}, "amenities">>,
       <<{"room types", "room type"}, "room_types">>,
       <<{"pricing", "price", "fees"}, "pricing">>,
       <<{"faq", "question"}, "faqs">>,
       <<{"about", "overview"}, "property_overview">>,
       <<{"location", "commute"}, "location_transport">>,
       <<{"nearby", "surrounding"}, "nearby_places">>,
       <<{"bills"}, "bills_included">>,
       <<{"payment", "policies"}, "payment_options">>,
       <<{"cancellation"}, "cancellation_policies">>,
       <<{"offer", "deal", "promotion"}, "offers_deals">>,
       <<{"review", "rating"}, "reviews_ratings">>,
       <<{"contact", "support"}, "contact_support">> >>

BillsAndPayment(h) == Contains(h, "bills") /\ Contains(h, "payment")

\* The slug of the first group with a term in the heading, "" if no group has one.
FirstGroupSlug(h) ==
    LET g == First(1, Len(TaxonomyGroups),
                   LAMBDA k : \E t \in TaxonomyGroups[k][1] : Contains(h, t))
    IN  IF g = 0 THEN "" ELSE TaxonomyGroups[g][2]

\* C11: a heading is mapped to the slug of the first keyword group, in the
\* fixed priority order, that has a term in it (amenities before pricing, ...),
\* each group giving its slug of the taxonomy (about/overview gives
\* property_overview, location/commute location_transport, payment/policy
\* payment_options, cancellation cancellation_policies, offers offers_deals,
\* reviews reviews_ratings, contact contact_support); a heading that has no
\* term of any group is mapped to its slugified text.
C11_FirstGroupGivesTaxonomySlug ==
    (mode = "slug" /\ out # <<>> /\ ~BillsAndPayment(Lower(arg[1])))
        => out[1] = With(FirstGroupSlug(Lower(arg[1])),
                         LAMBDA s : IF s = "" THEN Slugify(Lower(arg[1])) ELSE s)

-----------------------------------------------------------------------------
(* Specification of the URL resolution of parse_markdown_to_property_data: *)
(* one call on a document of URL-bearing lines.                            *)

MaxUrlLines == 2

UrlLines ==
    {"Alder House, student living",
     "https://cdn.example.com/logo.svg",
     "https://example.com/property/123",
     "[Alder](https://alder.example/property/1)",
     "<a href=\"https://birch.example/rooms\">Rooms</a> www.cedar.example/rooms",
     "https://birch.example/about https://cedar.example/about",
     "https://cedar.example/rooms?ref=nav",
     "https://cdn.example.com/property/1",
     "https://facebook.com/alder",
     "https://dorm.example/student/a.ico",
     "https://example.com",
     "[Rooms](/rooms)"}

UrlDocuments ==
    UNION {{JoinWith(f, NL) : f \in [1..n -> UrlLines]} : n \in 1..MaxUrlLines}

InitUrl ==
    /\ mode = "url"
    /\ arg \in {<<d>> : d \in UrlDocuments}
    /\ out = <<>>
    /\ Unused

\* One call of parse_markdown_to_property_data.  Recorded: url_candidates, the
\* value of `url` after the sort (selected) and the url of the PropertyData.
ResolveMarkdownUrl ==
    /\ mode = "url"
    /\ out = <<>>
    /\ out' = With(UrlCandidates(SplitLines(arg[1])),
                   LAMBDA c : <<[candidates |-> c,
                                 selected |-> BestUrl(c),
                                 url |-> parse_markdown_to_property_data(arg[1]).pd[1].url]>>)
    /\ UNCHANGED <<mode, data, runs, cands, merged, jobs_store, calls, response, nreq,
                   scraper, arg, tasks>>

NextUrl == ResolveMarkdownUrl

SpecUrl == InitUrl /\ [][NextUrl]_vars

-----------------------------------------------------------------------------
(* Properties of the URL resolution.                                       *)

\* A match made absolute as the candidate loop does: <<url>>, <<>> if relative.
AbsoluteUrl(raw) ==
    With(CleanUrl(raw),
         LAMBDA c : IF StartsAt(c, "http", 1) THEN <<c>>
                    ELSE IF StartsAt(c, "www.", 1) THEN <<"https://" \o c>>
                    ELSE IF Contains(c, "://") THEN <<c>> ELSE <<>>)

\* Every URL of the document, in any of the four syntaxes.
DocumentUrls(lines) ==
    Flatten([i \in 1..Len(lines) |->
        Flatten([pat \in 1..4 |->
            With(UrlMatches(lines[i], pat, 1),
                 LAMBDA ms : Flatten([k \in 1..Len(ms) |-> AbsoluteUrl(ms[k])]))])])

image_extensions == <<".svg", ".png", ".jpg", ".jpeg", ".gif", ".webp", ".ico">>

\* A URL the candidate loop skips or penalises: an asset, social or CDN
\* keyword, or an image-file extension.
AssetLike(u) ==
    With(Lower(u), LAMBDA low : \/ ContainsAny(low, url_skip_keywords)
                                \/ ContainsAny(low, image_extensions))

HasCleanUrl(lines) ==
    With(DocumentUrls(lines), LAMBDA us : \E k \in 1..Len(us) : ~AssetLike(us[k]))

\* C12: when the document holds at least one absolute URL with no asset, social
\* or CDN keyword and no image-file extension, the resolved URL is not
\* asset-like.
C12_CleanUrlBeatsAssets ==
    (mode = "url" /\ out # <<>> /\ HasCleanUrl(SplitLines(arg[1])))
        => ~AssetLike(out[1].url)

\* C14: when the document has no URL, or every URL in it is asset-like, the
\* resolved URL is the default placeholder.
C14_OnlyAssetsGiveDefault ==
    (mode = "url" /\ out # <<>> /\ ~HasCleanUrl(SplitLines(arg[1])))
        => out[1].url = DefaultUrl

\* Indices of the candidates of the highest priority.
TopCandidates(c) ==
    {i \in 1..Len(c) : \A j \in 1..Len(c) : c[j].priority <= c[i].priority}

\* Where a candidate URL first appears in the document (a www. address is a
\* candidate with "https://" put before it).
Appears(doc, u) ==
    IF Contains(doc, u) THEN IndexFrom(doc, u, 1) ELSE IndexFrom(doc, SubSeq(u, 9, Len(u)), 1)

-----------------------------------------------------------------------------
(* Specification of _extract_real_property_name: one call on a text and a  *)
(* fallback name.                                                          *)

MaxNameLines == 2

RECURSIVE Repeat(_, _)
Repeat(s, n) == IF n = 0 THEN "" ELSE s \o Repeat(s, n - 1)

AltTextName == "1Ten on Whyte, Edmonton - Edmonton, Canada - 1 Bed 1 Bath - Bedroom"

FallbackNames ==
    {AltTextName, "Alder House - Kitchen", " Cedar Hall - Amenities", "Alder House",
     "Birch Court - Student Living"}

NameLines ==
    {"## 1Ten On Whyte - Student Living",
     "# Overview of the building",
     "## Bedroom options",
     "## Gym",
     "#### Four",
     "  ### Birch Court  ",
     "Welcome to Alder",
     "# " \o Repeat("x", 79),
     "# " \o Repeat("x", 80)}

\* Blank lines before the named lines: none, or enough to put the first named
\* line at line 20 or at line 21.
LeadingBlankLines == {0, 19, 20}

NameTexts ==
    {Repeat(NL, b) \o JoinWith(f, NL) :
        b \in LeadingBlankLines,
        f \in UNION {[1..n -> NameLines] : n \in 1..MaxNameLines}}

InitName ==
    /\ mode = "name"
    /\ arg \in NameTexts \X FallbackNames
    /\ out = <<>>
    /\ Unused

ExtractRealPropertyName ==
    /\ mode = "name"
    /\ out = <<>>
    /\ out' = <<_extract_real_property_name(arg[1], Some(arg[2]))>>
    /\ UNCHANGED <<mode, data, runs, cands, merged, jobs_store, calls, response, nreq,
                   scraper, arg, tasks>>

NextName == ExtractRealPropertyName

SpecName == InitName /\ [][NextName]_vars

-----------------------------------------------------------------------------
(* Properties of _extract_real_property_name.                              *)

LooksLikeAltText(name) ==
    \/ Contains(name, " - Bedroom") \/ Contains(name, " - Amenities")
    \/ Contains(name, " - Kitchen")

QualifiesAsName(c) ==
    /\ Len(c) >= 4 /\ Len(c) <= 79
    /\ ~Contains(c, "Overview") /\ ~Contains(c, "Bedroom") /\ ~Contains(c, "Amenities")

\* The captured texts of the qualifying headings among the first 20 lines, in order.
QualifyingHeadings(text) ==
    With(Take(SplitLines(text), 20),
         LAMBDA lines :
            Flatten([i \in 1..Len(lines) |->
                With(HeadingCapture(lines[i]),
                     LAMBDA c : IF c.some /\ QualifiesAsName(c.v) THEN <<c.v>> ELSE <<>>)]))

NameExpected(text, fallback, headings) ==
    IF ~LooksLikeAltText(fallback) THEN fallback
    ELSE IF headings # <<>> THEN headings[1]
    ELSE Strip(BeforeFirstDash(fallback))

\* C15: a fallback name without an alt-text delimiter is returned unchanged;
\* one with such a delimiter is replaced by the first heading among the first
\* 20 lines whose text has 4 to 79 characters and none of Overview, Bedroom,
\* Amenities, and without such a heading by its part before the first " - ".
C15_NameResolution ==
    (mode = "name" /\ out # <<>>)
        => out[1] = NameExpected(arg[1], arg[2], QualifyingHeadings(arg[1]))

\* The example of the claim, with the heading behind a generic one.
C15_Witness ==
    /\ mode = "name" /\ out # <<>>
    /\ arg[2] = AltTextName
    /\ arg[1] = "# Overview of the building" \o NL \o "## 1Ten On Whyte - Student Living"
    /\ out[1] = "1Ten On Whyte - Student Living"

-----------------------------------------------------------------------------
(* parsers.py: the location of parse_json_to_property_data.                *)

\* The keys a location object is written with, in the order it is written
\* (a dict keeps the order in which its keys were inserted).
LocationKeys ==
    <<"name", "address", "street", "city", "state", "region", "country", "postal_code",
      "zip_code", "formatted_address", "display_name", "label", "lat", "lng", "plus_code">>

\* repr(x) of a string, an integer or None.
PyReprAtom(x) ==
    CASE TypeOf(x) = "str" -> "'" \o x.str \o "'"
      [] TypeOf(x) = "int" -> ToString(x.int)
      [] OTHER -> "None"

\* str(x): a string is itself, an integer its decimal digits, a dict its
\* repr, "{'key': value, ...}" in the order of its keys.
PyStr(x) ==
    CASE TypeOf(x) = "str" -> x.str
      [] TypeOf(x) = "int" -> ToString(x.int)
      [] TypeOf(x) = "dict" ->
           "{" \o JoinWith(Flatten([k \in 1..Len(LocationKeys) |->
                               IF LocationKeys[k] \in DOMAIN x.dict
                               THEN <<"'" \o LocationKeys[k] \o "': "
                                      \o PyReprAtom(x.dict[LocationKeys[k]])>>
                               ELSE <<>>]), ", ") \o "}"
      [] OTHER -> "None"

\* str(d[key]) if d.get(key) is truthy: <<text>> or <<>>.
PartOf(d, key) == IF PyTruthy(Get(d, key)) THEN <<PyStr(Get(d, key))>> ELSE <<>>

\* str(d.get(k1) or d.get(k2)) if one of the two is truthy.
PartOfEither(d, k1, k2) ==
    IF PyTruthy(Get(d, k1)) THEN <<PyStr(Get(d, k1))>> ELSE PartOf(d, k2)

\* location_parts of a location dict.
LocationParts(d) ==
    PartOf(d, "name") \o PartOf(d, "address") \o PartOf(d, "street") \o PartOf(d, "city")
    \o PartOfEither(d, "state", "region") \o PartOf(d, "country")
    \o PartOfEither(d, "postal_code", "zip_code")

\* The branches taken when location_parts is empty.
LocationFallback(d) ==
    IF PyTruthy(Get(d, "formatted_address")) THEN PyStr(Get(d, "formatted_address"))
    ELSE IF PyTruthy(Get(d, "display_name")) THEN PyStr(Get(d, "display_name"))
    ELSE IF PyTruthy(Get(d, "label")) THEN PyStr(Get(d, "label"))
    ELSE IF PyTruthy(Get(d, "lat")) /\ PyTruthy(Get(d, "lng"))
         THEN PyStr(Get(d, "lat")) \o ", " \o PyStr(Get(d, "lng"))
    ELSE PyStr(d)

DictLocation(d, parts) ==
    IF parts # <<>> THEN JoinWith(parts, ", ") ELSE LocationFallback(d)

\* A variant with a plausible slip: the parts are joined in the order city,
\* name, ... .
JsonLocationCityFirst(location_data) ==
    IF ~PyTruthy(location_data) THEN JNull
    ELSE IF TypeOf(location_data) = "dict"
         THEN JStr(DictLocation(location_data,
                                PartOf(location_data, "city") \o LocationParts(location_data)))
    ELSE JStr(PyStr(location_data))

\* `location` as passed to PropertyData, from location_data.  The final
\* safety check finds a str or None and changes nothing.
JsonLocation(location_data) ==
    IF ~PyTruthy(location_data) THEN JNull
    ELSE IF TypeOf(location_data) = "dict"
         THEN JStr(DictLocation(location_data, LocationParts(location_data)))
    ELSE JStr(PyStr(location_data))

\* data.get("location") or data.get("address") or ... or data.get("address_line_1")
location_data(d) ==
    OrChain(d, <<"location", "address", "city", "area">>, Get(d, "address_line_1"))

-----------------------------------------------------------------------------
(* Specification of the location resolution: parse_json_to_property_data   *)
(* on a listing with one location value.                                   *)

MaxFields == 3

FieldValue(key, full) ==
    CASE key \in {"lat", "lng"} -> JInt(IF full THEN (IF key = "lat" THEN 51 ELSE 5) ELSE 0)
      [] key = "zip_code" -> IF full THEN JInt(90210) ELSE JStr("")
      [] key = "name" -> JStr(IF full THEN "X" ELSE "")
      [] key = "city" -> JStr(IF full THEN "Y" ELSE "")
      [] key = "country" -> JStr(IF full THEN "Z" ELSE "")
      [] OTHER -> JStr(IF full THEN "the " \o key ELSE "")

\* Location objects of up to MaxFields keys, each with a usable or an empty value.
LocationObjects ==
    {JDict([k \in DOMAIN f |-> FieldValue(k, f[k])]) :
        f \in UNION {[S -> BOOLEAN] :
                        S \in {T \in SUBSET Range(LocationKeys) : Cardinality(T) <= MaxFields}}}

Listings ==
    {JDict([name |-> JStr("Alder House"), location |-> l]) :
        l \in LocationObjects \cup {JStr("London, UK"), JStr(""), JInt(7), JNull}}
    \cup {JDict([name |-> JStr("Alder House")]),
          JDict([name |-> JStr("Alder House"), address |-> JStr("1 Elm St")]),
          JDict([name |-> JStr("Alder House"), location |-> JStr(""), city |-> JStr("Leeds")])}

InitLocation ==
    /\ mode = "location"
    /\ arg \in {<<l>> : l \in Listings}
    /\ out = <<>>
    /\ Unused

\* One call of parse_json_to_property_data; recorded: what it raised and the
\* location of the PropertyData.
ParseJsonLocation ==
    /\ mode = "location"
    /\ out = <<>>
    /\ out' = <<[raised |-> parse_json_to_property_data(arg[1]).raised,
                 location |-> JsonLocation(location_data(arg[1]))]>>
    /\ UNCHANGED <<mode, data, runs, cands, merged, jobs_store, calls, response, nreq,
                   scraper, arg, tasks>>

NextLocation == ParseJsonLocation

SpecLocation == InitLocation /\ [][NextLocation]_vars

-----------------------------------------------------------------------------
(* Properties of the location resolution.                                  *)

\* The usable value of a field as text: <<text>>, or <<>> if absent or empty.
FieldText(d, key) ==
    IF key \notin DOMAIN d.dict THEN <<>>
    ELSE IF d.dict[key] \in {JStr(""), JInt(0), JNull} THEN <<>>
    ELSE IF TypeOf(d.dict[key]) = "int" THEN <<ToString(d.dict[key].int)>>
    ELSE <<d.dict[key].str>>

FirstOf(a, b) == IF a # <<>> THEN a ELSE b

\* The non-empty fields in the order name, address, street, city, state or
\* region, country, postal or zip code.
AddressFields(d) ==
    FieldText(d, "name") \o FieldText(d, "address") \o FieldText(d, "street")
    \o FieldText(d, "city") \o FirstOf(FieldText(d, "state"), FieldText(d, "region"))
    \o FieldText(d, "country")
    \o FirstOf(FieldText(d, "postal_code"), FieldText(d, "zip_code"))

GivenLocation == Get(arg[1], "location")

\* C16: a string location is returned unchanged; a location object with
\* address fields gives its non-empty fields joined with ", " in the order
\* name, address/street, city, region/state, country, postal/zip; the location
\* is always a string or absent.
C16_LocationResolved ==
    (mode = "location" /\ out # <<>>)
        => /\ out[1].raised = ""
           /\ TypeOf(out[1].location) \in {"str", "NoneType"}
           /\ (TypeOf(GivenLocation) = "str" /\ GivenLocation.str # "")
                  => out[1].location = GivenLocation
           /\ (TypeOf(GivenLocation) = "dict" /\ AddressFields(GivenLocation) # <<>>)
                  => out[1].location = JStr(JoinWith(AddressFields(GivenLocation), ", "))

\* The example of the claim.
C16_Witness ==
    /\ mode = "location" /\ out # <<>>
    /\ GivenLocation = JDict([name |-> JStr("X"), city |-> JStr("Y"), country |-> JStr("Z")])
    /\ out[1].location = JStr("X, Y, Z")

HasUsableField(d) ==
    \/ AddressFields(d) # <<>>
    \/ \E k \in {"formatted_address", "display_name", "label"} : FieldText(d, k) # <<>>
    \/ (FieldText(d, "lat") # <<>> /\ FieldText(d, "lng") # <<>>)

\* C17: a location object with no address field, no formatted-address,
\* display-name or label field and no latitude/longitude pair with both
\* coordinates non-zero resolves to an absent location.
C17_NothingUsableGivesNone ==
    (mode = "location" /\ out # <<>> /\ TypeOf(GivenLocation) = "dict"
     /\ ~HasUsableField(GivenLocation))
        => out[1].location = JNull

-----------------------------------------------------------------------------
(* Specification of the segmenter on one heading-less line of amenities.   *)

MaxAmenities == 3

AmenityNames ==
    {"Gym", "Study Room", "Courtyard", "Boardroom", "On-Site Laundry", "Study Lounge", "Pool"}

ExampleAmenityLine == "Gym  Study Room Courtyard Boardroom  On-Site Laundry  Study Lounge"

\* Lines naming 3 to MaxAmenities different amenities two spaces apart, and
\* the example line of the docstring.
AmenityLines ==
    {ExampleAmenityLine} \cup
    {JoinWith(f, "  ") :
        f \in {g \in UNION {[1..n -> AmenityNames] : n \in 3..MaxAmenities} :
                  \A a, b \in DOMAIN g : a # b => g[a] # g[b]}}

InitAmenities ==
    /\ mode = "amenities"
    /\ arg \in {<<l>> : l \in AmenityLines}
    /\ out = <<>>
    /\ Unused

ExtractSections ==
    /\ mode = "amenities"
    /\ out = <<>>
    /\ \E ord \in SetOrders(RoomStrings(arg[1])) :
           out' = <<_extract_firecrawl_sections(arg[1], ord)>>
    /\ UNCHANGED <<mode, data, runs, cands, merged, jobs_store, calls, response, nreq,
                   scraper, arg, tasks>>

NextAmenities == ExtractSections

SpecAmenities == InitAmenities /\ [][NextAmenities]_vars

\* C18: a heading-less line with at least 3 of the amenities keywords gives an
\* amenities section whose items are listed in the order in which they appear
\* in the line; the example line gives exactly Gym, Study Room, Courtyard,
\* Boardroom, On-Site Laundry, Study Lounge.
C18_AmenitiesInLineOrder ==
    (mode = "amenities" /\ out # <<>> /\ CountIn(arg[1], amenities_keywords) >= 3)
        => \E k \in 1..Len(out[1]) :
               /\ out[1][k].original_name = "amenities"
               /\ InOrderOfAppearance(out[1][k])
               /\ arg[1] = ExampleAmenityLine
                      => out[1][k].items = <<"Gym", "Study Room", "Courtyard", "Boardroom",
                                             "On-Site Laundry", "Study Lounge">>

-----------------------------------------------------------------------------
(* BaseParser._calculate_confidence_score, as parse() calls it on the      *)
(* finished record.  Scores are in hundredths.  The scorer is a sum of     *)
(* weighted counts with a hard cap; its weights are not fixed, so a        *)
(* behaviour starts with any non-negative weights.                         *)

\* The hard cap of the score, 1.0.
ScoreCap == 100

Min(a, b) == IF a <= b THEN a ELSE b

Flag(b) == IF b THEN 1 ELSE 0

\* The sum before the cap.
WeightedSum(rec, w) ==
    w.section * rec.sections + w.word * rec.words + w.pricing * Flag(rec.pricing)
    + w.contact * Flag(rec.contact) + w.location * Flag(rec.location)

\* Variants with a plausible slip: no cap; the words counted per section.
_calculate_confidence_score_uncapped(rec, w) == WeightedSum(rec, w)

_calculate_confidence_score_per_section(rec, w) ==
    Min(ScoreCap, WeightedSum([rec EXCEPT !.words = rec.words \div (rec.sections + 1)], w))

_calculate_confidence_score(rec, w) == Min(ScoreCap, WeightedSum(rec, w))

-----------------------------------------------------------------------------
(* Specification of the scorer: a record is scored, then scored again after *)
(* it has become more complete.                                            *)

MaxSections == 2
MaxWords == 2

ScoreWeights ==
    [section : {0, 10, 60}, word : {0, 1, 40}, pricing : {0, 20}, contact : {0, 20},
     location : {0, 100}]

Records ==
    [sections : 0..MaxSections, words : 0..MaxWords, pricing : BOOLEAN, contact : BOOLEAN,
     location : BOOLEAN]

\* The records that are rec with one thing added.
MoreComplete(rec) ==
    {[rec EXCEPT !.sections = rec.sections + 1], [rec EXCEPT !.words = rec.words + 1],
     [rec EXCEPT !.pricing = TRUE], [rec EXCEPT !.contact = TRUE],
     [rec EXCEPT !.location = TRUE]} \ {rec}

InitScore ==
    /\ mode = "score"
    /\ arg \in Records \X ScoreWeights
    /\ out = <<>>
    /\ Unused

\* canonical.confidence_score = self._calculate_confidence_score(canonical)
CalculateConfidence ==
    /\ mode = "score"
    /\ out = <<>>
    /\ out' = <<_calculate_confidence_score(arg[1], arg[2])>>
    /\ UNCHANGED <<mode, data, runs, cands, merged, jobs_store, calls, response, nreq,
                   scraper, arg, tasks>>

\* parse() on a document that gives a more complete record; out then holds the
\* new score and the one before.
ScoreMoreComplete ==
    /\ mode = "score"
    /\ out # <<>>
    /\ \E rec \in MoreComplete(arg[1]) \cap Records :
           /\ arg' = <<rec, arg[2]>>
           /\ out' = <<_calculate_confidence_score(rec, arg[2]), out[1]>>
    /\ UNCHANGED <<mode, data, runs, cands, merged, jobs_store, calls, response, nreq,
                   scraper, tasks>>

NextScore == CalculateConfidence \/ ScoreMoreComplete

SpecScore == InitScore /\ [][NextScore]_vars

\* C19: the confidence score of a finished record lies in [0, 1], whatever its
\* section count, word count and pricing, contact and location, also when the
\* sum exceeds the hard cap.
C19_ScoreInUnitInterval ==
    (mode = "score" /\ out # <<>>) => (out[1] >= 0 /\ out[1] <= 100)

\* A record whose sum exceeds the cap has been scored.
C19_Witness ==
    /\ mode = "score" /\ Len(out) = 1
    /\ WeightedSum(arg[1], arg[2]) > 100
    /\ arg[1].sections = MaxSections
    /\ out[1] = 100

\* C20: adding a section, pricing, contact or location, or a word, never
\* decreases the confidence score, also at and above the hard cap.
C20_ScoreMonotonic ==
    (mode = "score" /\ Len(out) = 2) => out[1] >= out[2]

\* A record at the cap has gained a section and is still at the cap, having
\* reached the cap by an earlier addition.
C20_Witness ==
    /\ mode = "score" /\ Len(out) = 2
    /\ out[2] = 100 /\ out[1] = 100
    /\ arg[1].sections = MaxSections
    /\ WeightedSum(arg[1], arg[2]) > WeightedSum([arg[1] EXCEPT !.sections = @ - 1], arg[2])
    /\ WeightedSum([arg[1] EXCEPT !.sections = @ - 1], arg[2]) >= 100

-----------------------------------------------------------------------------
(* Specification of _remove_navigation_noise: the filter applied to a text, *)
(* and again to its own output.                                            *)

MaxNoiseLines == 3

NoiseLines ==
    {"Alder House", "", "Menu  Login  Sign Up", "## Login", "menu of the day",
     "Support " \o Repeat("x", 91), "Support " \o Repeat("x", 92)}

NoiseTexts == {JoinWith(f, NL) : f \in UNION {[1..n -> NoiseLines] : n \in 1..MaxNoiseLines}}

InitNoise ==
    /\ mode = "noise"
    /\ arg \in {<<t>> : t \in NoiseTexts}
    /\ out = <<>>
    /\ Unused

RemoveNavigationNoise ==
    /\ mode = "noise"
    /\ Len(out) < 2
    /\ out' = Append(out, _remove_navigation_noise(IF out = <<>> THEN arg[1] ELSE out[1]))
    /\ UNCHANGED <<mode, data, runs, cands, merged, jobs_store, calls, response, nreq,
                   scraper, arg, tasks>>

NextNoise == RemoveNavigationNoise

SpecNoise == InitNoise /\ [][NextNoise]_vars

\* A line holds a blocklist keyword and has fewer than 100 characters.
IsNoise(line) ==
    (\E k \in 1..Len(skip_keywords) : Contains(line, skip_keywords[k])) /\ Len(line) < 100

\* C25: the filter removes exactly the lines that hold a blocklist keyword and
\* are shorter than 100 characters, keeps every other line unchanged and in
\* order, and changes nothing in a text it has filtered.
C25_FilterRemovesExactlyNoise ==
    (mode = "noise" /\ out # <<>>)
        => /\ out[1] = JoinWith(SelectSeq(SplitLines(arg[1]), LAMBDA l : ~IsNoise(l)), NL)
           /\ Len(out) = 2 => out[2] = out[1]

\* A text with a keyword line of 99 characters, one of 100 and a plain line
\* has been filtered twice.
C25_Witness ==
    /\ mode = "noise" /\ Len(out) = 2
    /\ arg[1] = JoinWith(<<"Support " \o Repeat("x", 91), "Support " \o Repeat("x", 92),
                           "Alder House">>, NL)
    /\ out[1] = JoinWith(<<"Support " \o Repeat("x", 92), "Alder House">>, NL)

-----------------------------------------------------------------------------
(* Specification of parse() on documents with navigation headings.         *)

NavigationLines ==
    {"# Menu", "## Login", "## Rooms for you", "# Alder House", "Gym  Pool  Sauna  Spa"}

NavigationTexts ==
    {JoinWith(f, NL) : f \in UNION {[1..n -> NavigationLines] : n \in 1..MaxNoiseLines}}

InitNavigation ==
    /\ mode = "parse"
    /\ data \in {[text |-> t, property_name |-> n, url |-> None] :
                    t \in NavigationTexts, n \in {None, Some("Alder House - Bedroom")}}
    /\ runs = <<>>
    /\ cands = <<>>
    /\ merged = <<>>
    /\ jobs_store = <<>>
    /\ calls = <<>>
    /\ response = NoResponse
    /\ nreq = 0
    /\ scraper = FALSE
    /\ tasks = <<>>
    /\ arg = <<>>
    /\ out = <<>>

SpecNavigation == InitNavigation /\ [][Next]_vars

\* The texts of the headings on the lines the noise filter strips.
StrippedHeadings(text) ==
    {HeadingCapture(l).v : l \in {x \in Range(SplitLines(text)) :
                                    IsNoise(x) /\ HeadingCapture(x).some}}

\* C24: the field resolver and the segmenter work on noise-filtered text: a
\* heading on a line the noise filter strips is never returned as the property
\* name and never starts a section.
C24_StrippedHeadingNeverUsed ==
    \A r \in 1..Len(runs) :
        /\ runs[r].property_name \notin StrippedHeadings(data.text)
        /\ \A k \in 1..Len(runs[r].sections) :
               runs[r].sections[k].display_name \notin StrippedHeadings(data.text)

-----------------------------------------------------------------------------
(* Specification of the heading-span strategy: the segmenter on documents  *)
(* of headings, sub-headings and content lines.                            *)

MaxSpanLines == 3

SpanLines ==
    {"## Amenities", "## About us", "### Is it open?", "Gym  Pool  Sauna  Spa",
     "Open all year round"}

SpanTexts == {JoinWith(f, NL) : f \in UNION {[1..n -> SpanLines] : n \in 1..MaxSpanLines}}

InitSpans ==
    /\ mode = "spans"
    /\ arg \in {<<t>> : t \in SpanTexts}
    /\ out = <<>>
    /\ Unused

\* One call of _extract_firecrawl_sections; recorded: the sections of the
\* heading loop and the list returned.
ExtractHeadingSpans ==
    /\ mode = "spans"
    /\ out = <<>>
    /\ \E ord \in SetOrders(RoomStrings(arg[1])) :
           out' = <<[spans |-> HeadingSections(_remove_navigation_noise(arg[1]), ord),
                     sections |-> _extract_firecrawl_sections(arg[1], ord)]>>
    /\ UNCHANGED <<mode, data, runs, cands, merged, jobs_store, calls, response, nreq,
                   scraper, arg, tasks>>

NextSpans == ExtractHeadingSpans

SpecSpans == InitSpans /\ [][NextSpans]_vars

\* A heading of the depth the strategy scans for.
IsSectionHeading(line) == StartsAt(line, "## ", 1)

\* The lines after heading line i up to the next heading of the same depth or
\* the end of the document.
SpanAfter(lines, i) ==
    LET nxt == {j \in (i + 1)..Len(lines) : IsSectionHeading(lines[j])}
    IN  Strip(JoinWith(SubSeq(lines, i + 1, IF nxt = {} THEN Len(lines) ELSE SetMin(nxt) - 1),
                       NL))

\* C22: the content span of a heading is all text from the line after it up to
\* the next heading of the same depth or the end of the document; a deeper
\* heading inside the section does not end the span.
C22_SpanRunsToNextSameDepthHeading ==
    (mode = "spans" /\ out # <<>>)
        => \A k \in 1..Len(out[1].spans) :
               \E i \in 1..Len(SplitLines(arg[1])) :
                   /\ IsSectionHeading(SplitLines(arg[1])[i])
                   /\ out[1].spans[k].content = SpanAfter(SplitLines(arg[1]), i)

-----------------------------------------------------------------------------
(* Specification of the item cascade on contents of standalone lines.      *)

MaxShortLines == 3

StandaloneLines ==
    {"cc", "ddd", "Open all year", "Quiet study floor", Repeat("a", 49), Repeat("b", 50)}

\* Lines "line 1", "line 2", ... before the others: none, or 18.
FillerLines(n) == [k \in 1..n |-> "line " \o ToString(k)]

FillerCounts == {0, 18}

StandaloneContents ==
    {JoinWith(FillerLines(n) \o f, NL) :
        n \in FillerCounts,
        f \in {g \in UNION {[1..m -> StandaloneLines] : m \in 1..MaxShortLines} :
                  \A a, b \in DOMAIN g : a # b => g[a] # g[b]}}

InitShortLines ==
    /\ mode = "short"
    /\ arg \in {<<c>> : c \in StandaloneContents}
    /\ out = <<>>
    /\ Unused

\* One call of _extract_items_from_firecrawl_content on the content of an
\* 'about' section; recorded: what Pattern 3 contributes and the list returned.
ExtractItems ==
    /\ mode = "short"
    /\ out = <<>>
    /\ out' = <<[short_lines |-> ShortLineItems(arg[1]),
                 items |-> _extract_items_from_firecrawl_content(arg[1], "about", <<>>)]>>
    /\ UNCHANGED <<mode, data, runs, cands, merged, jobs_store, calls, response, nreq,
                   scraper, arg, tasks>>

NextShortLines == ExtractItems

SpecShortLines == InitShortLines /\ [][NextShortLines]_vars

\* The non-empty lines of more than 2 and fewer than 49 characters.
StrictlyBetween2And49(content) ==
    SelectSeq(SplitLines(content), LAMBDA l : Len(l) > 2 /\ Len(l) < 49)

\* C23: the short-lines strategy collects exactly the non-empty lines whose
\* length is strictly between 2 and 49 (a 49-character line is not collected,
\* a 3-character line is), contributes only if there are at least 3 of them,
\* and then at most the first 20.
C23_ShortLinesStrictlyBetween ==
    (mode = "short" /\ out # <<>>)
        => out[1].short_lines =
               With(StrictlyBetween2And49(arg[1]),
                    LAMBDA s : IF Len(s) >= 3 THEN Take(s, 20) ELSE <<>>)

-----------------------------------------------------------------------------
(***************************************************************************)
(* app.py: the life of a comparison job.  Every handler and the background *)
(* task run_comparison_job are coroutines of one event loop, so a step of  *)
(* the model is the code between two awaits: run_comparison_job has one    *)
(* await (the pipeline), a handler has none.                               *)
(***************************************************************************)

MaxJobs == 2

JobIds == 1..MaxJobs

\* _process_comparison: the entry of a new job.
QueuedJob(job_id, property_name) ==
    [job_id |-> job_id,
     status |-> "queued",
     property_name |-> property_name,
     progress |-> 0,
     current_stage |-> "queued",
     error |-> None,
     result_path |-> None]

\* run_comparison_job before the pipeline is awaited.
MarkProcessing(job) ==
    [job EXCEPT !.status = "processing",
                !.current_stage = "extracting_sections",
                !.progress = 10]

\* run_comparison_job when the pipeline has returned.
MarkSaving(job) ==
    [job EXCEPT !.progress = 90, !.current_stage = "saving_results"]

MarkCompletedNoPath(job, job_id) ==
    [job EXCEPT !.status = "completed", !.progress = 100,
                !.current_stage = "completed"]
       @@ [completed_at |-> "now", summary |-> [property_name |-> job.property_name]]

\* run_comparison_job when the reports and the summary are written.
MarkCompleted(job, job_id) ==
    [job EXCEPT !.status = "completed", !.progress = 100,
                !.current_stage = "completed",
                !.result_path = Some("outputs/" \o ToString(job_id))]
       @@ [completed_at |-> "now", summary |-> [property_name |-> job.property_name]]

MarkFailedReset(job, e) ==
    [job EXCEPT !.status = "failed", !.error = Some(e), !.progress = 0]
       @@ [failed_at |-> "now"]

\* The except clause of run_comparison_job; e is str(e).
MarkFailed(job, e) ==
    [job EXCEPT !.status = "failed", !.error = Some(e)] @@ [failed_at |-> "now"]

InitJobs ==
    /\ mode = "jobs"
    /\ jobs_store = <<>>
    /\ tasks = <<>>
    /\ nreq = 0
    /\ response = NoResponse
    /\ arg = <<>>
    /\ out = <<>>
    /\ data = NoData
    /\ runs = <<>>
    /\ cands = <<>>
    /\ merged = <<>>
    /\ calls = <<>>
    /\ scraper = FALSE

Untouched == UNCHANGED <<mode, data, runs, cands, merged, calls, scraper, out>>

\* _process_comparison with both sides given: a side without property_name or
\* extracted_content is refused (the HTTPException 400 raised inside the try
\* is caught by its except Exception and answered as 500); otherwise the job
\* is stored and its task is handed to the background tasks.
ProcessComparison ==
    /\ mode = "jobs"
    /\ nreq < MaxJobs
    /\ \E valid \in BOOLEAN :
          /\ arg' = <<[op |-> "_process_comparison", job_id |-> nreq + 1]>>
          /\ IF valid
             THEN /\ jobs_store' = jobs_store @@ (nreq + 1 :> QueuedJob(nreq + 1, "Alder House"))
                  /\ tasks' = tasks @@ (nreq + 1 :> "scheduled")
                  /\ response' = [status |-> 200, detail |-> "Comparison started successfully",
                                  job_id |-> nreq + 1]
                  /\ nreq' = nreq + 1
             ELSE /\ response' = [status |-> 500, detail |-> "Invalid Amber data format",
                                  job_id |-> 0]
                  /\ UNCHANGED <<jobs_store, tasks, nreq>>
    /\ Untouched

\* run_comparison_job up to its await.  With the job deleted the first
\* subscript raises KeyError, and so does the first statement of the except
\* clause: the exception leaves the task.
RunJobStart ==
    /\ mode = "jobs"
    /\ \E job_id \in DOMAIN tasks :
          /\ tasks[job_id] = "scheduled"
          /\ arg' = <<[op |-> "run_comparison_job", job_id |-> job_id]>>
          /\ IF job_id \in DOMAIN jobs_store
             THEN /\ jobs_store' = [jobs_store EXCEPT ![job_id] = MarkProcessing(@)]
                  /\ tasks' = [tasks EXCEPT ![job_id] = "awaiting"]
             ELSE /\ tasks' = [tasks EXCEPT ![job_id] = "unhandled"]
                  /\ UNCHANGED jobs_store
    /\ UNCHANGED <<response, nreq>>
    /\ Untouched

\* run_comparison_job from its await to its end.  The pipeline returns or
\* raises; the files are written or the writing raises.
RunJobFinish ==
    /\ mode = "jobs"
    /\ \E job_id \in DOMAIN tasks, outcome \in {"returned", "pipeline raised", "save raised"} :
          /\ tasks[job_id] = "awaiting"
          /\ arg' = <<[op |-> "run_comparison_job", job_id |-> job_id]>>
          /\ IF job_id \in DOMAIN jobs_store
             THEN /\ jobs_store' =
                        [jobs_store EXCEPT ![job_id] =
                            IF outcome = "pipeline raised" THEN MarkFailed(@, outcome)
                            ELSE IF outcome = "save raised"
                            THEN MarkFailed(MarkSaving(@), outcome)
                            ELSE MarkCompleted(MarkSaving(@), job_id)]
                  /\ tasks' = [tasks EXCEPT ![job_id] = "done"]
             ELSE /\ tasks' = [tasks EXCEPT ![job_id] = "unhandled"]
                  /\ UNCHANGED jobs_store
    /\ UNCHANGED <<response, nreq>>
    /\ Untouched

\* The checks get_job_results and download_report start with, and the
\* Path(job["result_path"]) that follows them (a TypeError for None).
ResultPathOf(job_id) ==
    IF job_id \notin DOMAIN jobs_store
    THEN [status |-> 404, detail |-> "Job not found", job_id |-> job_id]
    ELSE IF jobs_store[job_id].status # "completed"
    THEN [status |-> 400, detail |-> "Job not completed", job_id |-> job_id]
    ELSE IF jobs_store[job_id].result_path = None
    THEN [status |-> 500, detail |-> "TypeError", job_id |-> job_id]
    ELSE [status |-> 200, detail |-> jobs_store[job_id].result_path.v, job_id |-> job_id]

\* GET /api/status/{job_id}
GetJobStatus ==
    /\ mode = "jobs"
    /\ \E job_id \in JobIds :
          /\ arg' = <<[op |-> "get_job_status", job_id |-> job_id]>>
          /\ response' = IF job_id \notin DOMAIN jobs_store
                         THEN [status |-> 404, detail |-> "Job not found", job_id |-> job_id]
                         ELSE [status |-> 200, detail |-> jobs_store[job_id].status,
                               job_id |-> job_id]
    /\ UNCHANGED <<jobs_store, tasks, nreq>>
    /\ Untouched

\* GET /api/results/{job_id}
GetJobResults ==
    /\ mode = "jobs"
    /\ \E job_id \in JobIds :
          /\ arg' = <<[op |-> "get_job_results", job_id |-> job_id]>>
          /\ response' = ResultPathOf(job_id)
    /\ UNCHANGED <<jobs_store, tasks, nreq>>
    /\ Untouched

\* GET /api/download/{job_id}/{file_type}
DownloadReport ==
    /\ mode = "jobs"
    /\ \E job_id \in JobIds, file_type \in {"csv", "json", "pdf"} :
          /\ arg' = <<[op |-> "download_report", job_id |-> job_id]>>
          /\ response' = With(ResultPathOf(job_id),
                              LAMBDA r : IF r.status = 200 /\ file_type \notin {"csv", "json"}
                                         THEN [status |-> 400, detail |-> "Invalid file type",
                                               job_id |-> job_id]
                                         ELSE r)
    /\ UNCHANGED <<jobs_store, tasks, nreq>>
    /\ Untouched

\* DELETE /api/jobs/{job_id}
DeleteJob ==
    /\ mode = "jobs"
    /\ \E job_id \in JobIds :
          /\ arg' = <<[op |-> "delete_job", job_id |-> job_id]>>
          /\ IF job_id \notin DOMAIN jobs_store
             THEN /\ response' = [status |-> 404, detail |-> "Job not found", job_id |-> job_id]
                  /\ UNCHANGED jobs_store
             ELSE /\ response' = [status |-> 200, detail |-> "Job deleted successfully",
                                  job_id |-> job_id]
                  /\ jobs_store' = [j \in DOMAIN jobs_store \ {job_id} |-> jobs_store[j]]
    /\ UNCHANGED <<tasks, nreq>>
    /\ Untouched

NextJobs ==
    \/ ProcessComparison
    \/ RunJobStart
    \/ RunJobFinish
    \/ GetJobStatus
    \/ GetJobResults
    \/ DownloadReport
    \/ DeleteJob

SpecJobs == InitJobs /\ [][NextJobs]_vars

StatusMoves ==
    {<<"queued", "processing">>, <<"processing", "completed">>, <<"processing", "failed">>}

\* C26: a job starts queued with progress 0; its status only moves queued ->
\* processing -> completed or failed, and completed and failed are never
\* left; its progress is one of 0, 10, 90, 100, never decreases, and is 100
\* only when the status is completed.
C26_StatusAndProgressOnlyAdvance ==
    /\ [](\A j \in DOMAIN jobs_store :
             /\ jobs_store[j].progress \in {0, 10, 90, 100}
             /\ jobs_store[j].progress = 100 => jobs_store[j].status = "completed")
    /\ [][\A j \in DOMAIN jobs_store' :
             IF j \in DOMAIN jobs_store
             THEN /\ \/ jobs_store'[j].status = jobs_store[j].status
                     \/ <<jobs_store[j].status, jobs_store'[j].status>> \in StatusMoves
                  /\ jobs_store'[j].progress >= jobs_store[j].progress
             ELSE jobs_store'[j].status = "queued" /\ jobs_store'[j].progress = 0]_vars

C26_Witness ==
    \E j, k \in DOMAIN jobs_store :
        /\ jobs_store[j].status = "completed" /\ jobs_store[j].progress = 100
        /\ jobs_store[k].status = "failed" /\ jobs_store[k].progress = 90

\* What a handler can read of a job: a completed job carries its results, a
\* failed job its error.
JobConsistent(job) ==
    /\ job.status = "completed" =>
          /\ job.progress = 100
          /\ job.result_path # None
          /\ "summary" \in DOMAIN job
    /\ job.status = "failed" => job.error # None

\* C27: between the steps of the event loop every completed job has progress
\* 100, a result_path and a summary, and every failed job has an error; a
\* results or download request then never meets a missing result_path, is
\* answered 404 for an unknown job and 400 for a job that is not completed,
\* and leaves the job store as it was.
C27_HandlersSeeConsistentJobs ==
    /\ [](\A j \in DOMAIN jobs_store : JobConsistent(jobs_store[j]))
    /\ [][(arg' # <<>> /\ arg'[1].op \in {"get_job_results", "download_report"}) =>
             /\ jobs_store' = jobs_store
             /\ response'.status # 500
             /\ arg'[1].job_id \notin DOMAIN jobs_store => response'.status = 404
             /\ (/\ arg'[1].job_id \in DOMAIN jobs_store
                 /\ jobs_store[arg'[1].job_id].status # "completed") => response'.status = 400]_vars

C27_Witness ==
    /\ arg # <<>>
    /\ arg[1].op = "get_job_results"
    /\ response.status = 200
    /\ \E j, k \in DOMAIN jobs_store :
          /\ j = arg[1].job_id
          /\ jobs_store[j].status = "completed"
          /\ jobs_store[k].status = "failed"

\* C28: the background task of a job never ends with an exception that
\* leaves run_comparison_job, whatever requests are handled between its
\* steps.
C28_TaskEndsWithoutException ==
    \A j \in DOMAIN tasks : tasks[j] # "unhandled"

\* The other half of C28: an id that was given out and is no longer in the
\* job store is not in it after any step.
DeletedJobStaysDeleted ==
    [][\A j \in 1..nreq : j \notin DOMAIN jobs_store => j \notin DOMAIN jobs_store']_vars

-----------------------------------------------------------------------------
(***************************************************************************)
(* simple_extractor.py: SimpleLLMExtractor.extract, applied once.  arg is  *)
(* <<raw_data, llm>>: the input dict and what the model call does.         *)
(***************************************************************************)

TextMin == 50

MetricKeys ==
    {"amenities_count", "room_types_count", "faqs_count", "bills_included_count",
     "payment_options_count", "universities_mentioned", "pois_count", "reviews_count",
     "trust_badges_count", "safety_features_count"}

_empty_result(property_name, url) ==
    JDict([property_name |-> property_name,
           url |-> url,
           sections_count |-> JInt(0),
           total_items |-> JInt(0),
           total_word_count |-> JInt(0),
           sections |-> JList(<<>>),
           metrics |-> JDict([k \in MetricKeys |-> JInt(0)]),
           images_count |-> JInt(0),
           videos_count |-> JInt(0)])

\* d.get(key, default)
GetOr(d, key, default) == IF key \in DOMAIN d.dict THEN d.dict[key] ELSE default

\* len(x) is defined for strings, lists and dicts.
HasLen(x) == TypeOf(x) \in {"str", "list", "dict"}

PyLen(x) ==
    CASE TypeOf(x) = "str" -> Len(x.str)
      [] TypeOf(x) = "list" -> Len(x.list)
      [] TypeOf(x) = "dict" -> Cardinality(DOMAIN x.dict)

\* What the model call does: self.llm.invoke raises, or returns a message
\* with this content.
LlmOutcomes ==
    {[raised |-> "APIConnectionError", content |-> ""],
     [raised |-> "", content |-> "Sorry, I cannot help with that."],
     [raised |-> "", content |-> "[]"],
     [raised |-> "", content |-> "{\"sections_count\": 1}"]}

\* json.loads on the contents above: <<value>>, or <<>> for JSONDecodeError.
JsonLoads(content) ==
    CASE content = "[]" -> <<JList(<<>>)>>
      [] content = "{\"sections_count\": 1}" -> <<JDict([sections_count |-> JInt(1)])>>
      [] OTHER -> <<>>

ExtractReturn(result, llm_calls) ==
    [raised |-> "", result |-> <<result>>, llm_calls |-> llm_calls]

ExtractRaise(e) == [raised |-> e, result |-> <<>>, llm_calls |-> 0]

\* The try block of extract: the model call, json.loads, and result.get of
\* the logging line (AttributeError for a list); every exception gives the
\* empty result.
CallModel(llm, property_name, url) ==
    IF llm.raised # "" \/ JsonLoads(llm.content) = <<>>
    THEN ExtractReturn(_empty_result(property_name, url), 1)
    ELSE IF TypeOf(JsonLoads(llm.content)[1]) # "dict"
    THEN ExtractReturn(_empty_result(property_name, url), 1)
    ELSE ExtractReturn(JsonLoads(llm.content)[1], 1)

\* SimpleLLMExtractor.extract
extract(raw_data, llm) ==
    With(GetOr(GetOr(raw_data, "extracted_content", JDict(<<>>)), "text", JStr("")),
         LAMBDA text :
            IF ~PyTruthy(text)
            THEN IF HasLen(text)
                 THEN ExtractReturn(_empty_result(GetOr(raw_data, "property_name", JStr("Unknown")),
                                                  GetOr(raw_data, "url", JStr(""))), 0)
                 ELSE ExtractRaise("TypeError")
            ELSE IF ~HasLen(text) THEN ExtractRaise("TypeError")
            ELSE IF PyLen(text) < TextMin
            THEN ExtractReturn(_empty_result(GetOr(raw_data, "property_name", JStr("Unknown")),
                                             GetOr(raw_data, "url", JStr(""))), 0)
            ELSE CallModel(llm, GetOr(raw_data, "property_name", JStr("Unknown")),
                           GetOr(raw_data, "url", JStr(""))))

\* A key that may be absent: <<>> for absent, <<value>> for present.
Entry(key, v) == IF v = <<>> THEN <<>> ELSE key :> v[1]

ExtractTexts ==
    {<<>>, <<JNull>>, <<JStr("")>>, <<JStr("Alder House, rooms from 200")>>,
     <<JStr(Repeat("a", TextMin - 1))>>, <<JStr(Repeat("a", TextMin))>>}

ExtractNames == {<<>>, <<JStr("Alder House")>>, <<JStr("Birch Court")>>}

ExtractUrls == {<<>>, <<JStr("")>>, <<JStr("https://example.com/alder-house")>>}

RawData ==
    {JDict(("extracted_content" :> JDict(Entry("text", t)))
              @@ Entry("property_name", n) @@ Entry("url", u)) :
        t \in ExtractTexts, n \in ExtractNames, u \in ExtractUrls}

InitExtract ==
    /\ mode = "extract"
    /\ arg \in RawData \X LlmOutcomes
    /\ out = <<>>
    /\ Unused

Extract ==
    /\ mode = "extract"
    /\ out = <<>>
    /\ out' = <<extract(arg[1], arg[2])>>
    /\ UNCHANGED <<mode, data, runs, cands, merged, jobs_store, calls, response, nreq,
                   scraper, arg, tasks>>

NextExtract == Extract

SpecExtract == InitExtract /\ [][NextExtract]_vars

\* The text of the input is missing or shorter than 50 characters.
TextMissingOrShort(raw_data) ==
    \/ "text" \notin DOMAIN raw_data.dict["extracted_content"].dict
    \/ raw_data.dict["extracted_content"].dict["text"] = JNull
    \/ /\ TypeOf(raw_data.dict["extracted_content"].dict["text"]) = "str"
       /\ Len(raw_data.dict["extracted_content"].dict["text"].str) < TextMin

ModelFails(llm) == llm.raised # "" \/ JsonLoads(llm.content) = <<>>

IsEmptyResult(result) ==
    /\ result.dict["sections_count"] = JInt(0)
    /\ result.dict["sections"] = JList(<<>>)
    /\ \A k \in MetricKeys : result.dict["metrics"].dict[k] = JInt(0)

PreservesNameAndUrl(raw_data, result) ==
    /\ "property_name" \in DOMAIN raw_data.dict =>
          result.dict["property_name"] = raw_data.dict["property_name"]
    /\ "url" \in DOMAIN raw_data.dict => result.dict["url"] = raw_data.dict["url"]

\* C29: extract does not raise; a missing or short text gives the empty
\* result without a model call, a failed model call or an unparsable
\* response gives the empty result, and both keep the property_name and
\* the url of the input.
C29_ExtractNeverRaises ==
    out # <<>> =>
       /\ out[1].raised = ""
       /\ TextMissingOrShort(arg[1]) =>
             /\ out[1].llm_calls = 0
             /\ IsEmptyResult(out[1].result[1])
             /\ PreservesNameAndUrl(arg[1], out[1].result[1])
       /\ (~TextMissingOrShort(arg[1]) /\ ModelFails(arg[2])) =>
             /\ IsEmptyResult(out[1].result[1])
             /\ PreservesNameAndUrl(arg[1], out[1].result[1])

-----------------------------------------------------------------------------
(***************************************************************************)
(* llm_client.py: LLMClient.generate_with_retries, one call, attempt by    *)
(* attempt.  arg is <<retries>>, calls the outcomes of the calls of        *)
(* generate made so far, out the outcome of the call once it has ended.    *)
(***************************************************************************)

MaxRetries == 4

\* LLMClient.generate returns the text of the provider or re-raises the
\* provider's exception.
GenerateOutcomes ==
    {[raised |-> "", value |-> "Both properties have a gym."],
     [raised |-> "", value |-> ""],
     [raised |-> "RateLimitError", value |-> ""],
     [raised |-> "APITimeoutError", value |-> ""],
     [raised |-> "APIConnectionError", value |-> ""]}

AfterAttemptSwallow(attempt, retries, outcome) ==
    IF outcome.raised = "" THEN <<outcome>>
    ELSE IF attempt = retries THEN <<outcome>>
    ELSE <<>>

\* The body of the loop for one attempt (counted from 0): <<outcome>> when
\* the call ends here, <<>> when the loop goes on.
AfterAttempt(attempt, retries, outcome) ==
    IF outcome.raised = "" THEN <<outcome>>
    ELSE IF attempt = retries - 1 THEN <<outcome>>
    ELSE <<>>

InitRetries ==
    /\ mode = "retries"
    /\ arg \in {<<retries>> : retries \in 0..MaxRetries}
    /\ out = <<>>
    /\ data = NoData
    /\ runs = <<>>
    /\ cands = <<>>
    /\ merged = <<>>
    /\ jobs_store = <<>>
    /\ calls = <<>>
    /\ response = NoResponse
    /\ nreq = 0
    /\ scraper = FALSE
    /\ tasks = <<>>

\* One turn of `for attempt in range(retries)`.
Attempt ==
    /\ mode = "retries"
    /\ out = <<>>
    /\ Len(calls) < arg[1]
    /\ \E outcome \in GenerateOutcomes :
          /\ calls' = Append(calls, outcome)
          /\ out' = AfterAttempt(Len(calls), arg[1], outcome)
    /\ UNCHANGED <<mode, data, runs, cands, merged, jobs_store, response, nreq,
                   scraper, arg, tasks>>

\* The loop is exhausted without a return or a raise: return "".
ReturnEmpty ==
    /\ mode = "retries"
    /\ out = <<>>
    /\ Len(calls) >= arg[1]
    /\ out' = <<[raised |-> "", value |-> ""]>>
    /\ UNCHANGED <<mode, data, runs, cands, merged, jobs_store, calls, response, nreq,
                   scraper, arg, tasks>>

NextRetries == Attempt \/ ReturnEmpty

SpecRetries == InitRetries /\ [][NextRetries]_vars

\* C30: at most `retries` attempts are made and none after a success; the
\* call returns the value of the first successful attempt; with retries >= 1
\* a call that ends without a success has made `retries` attempts and raises
\* the exception of the last one.
C30_RetriesThenLastError ==
    /\ Len(calls) <= arg[1]
    /\ \A i \in 1..Len(calls) - 1 : calls[i].raised # ""
    /\ (out = <<>> /\ calls # <<>>) => calls[Len(calls)].raised # ""
    /\ (out # <<>> /\ arg[1] >= 1) =>
          /\ calls # <<>>
          /\ out[1] = calls[Len(calls)]
          /\ out[1].raised # "" => Len(calls) = arg[1]

C30_Witness ==
    /\ out # <<>>
    /\ arg[1] = 3
    /\ Len(calls) = 3
    /\ out[1].raised = "RateLimitError"
    /\ calls[1].raised = "APITimeoutError"

-----------------------------------------------------------------------------
(***************************************************************************)
(* Two calls of FirecrawlParser.parse running at the same time, statement  *)
(* by statement.  arg is the pair of inputs, runs the pair of frames: the  *)
(* local variables of each call and the statement it stands at.  The order *)
(* of a set of strings is fixed within one process, so each input carries  *)
(* the order its room strings have in this process.                        *)
(***************************************************************************)

\* One-block documents, and one with two room strings (two set orders).
ConcurrentDocuments ==
    Blocks \cup {"## Floor" \o TAB \o "Plan" \o NL \o "Studio 1 Bed 1 Bath" \o NL
                 \o "## Room Types" \o NL \o "Suite 2 Bed 2 Bath"}

ConcurrentInputs ==
    {[data |-> [text |-> t, property_name |-> g[1], url |-> g[2]], ord |-> o] :
        t \in ConcurrentDocuments,
        g \in {<<None, None>>, <<Some("Alder House - Kitchen"), Some(ListingUrl)>>},
        o \in UNION {SetOrders(RoomStrings(t2)) : t2 \in ConcurrentDocuments}}

\* The locals of a call that has not started.
NewFrame ==
    [pc |-> "name", property_name |-> "", url |-> "", text_cleaned |-> "",
     sections |-> <<>>, result |-> <<>>]

\* The next statement of parse in the frame of one call.
ParseStep(frame, input) ==
    CASE frame.pc = "name" ->
           [frame EXCEPT !.pc = "url",
                         !.property_name =
                             _extract_real_property_name(input.data.text,
                                                         input.data.property_name)]
      [] frame.pc = "url" ->
           [frame EXCEPT !.pc = "clean", !.url = ResolveUrl(input.data.url)]
      [] frame.pc = "clean" ->
           [frame EXCEPT !.pc = "headings",
                         !.text_cleaned = _remove_navigation_noise(input.data.text)]
      [] frame.pc = "headings" ->
           [frame EXCEPT !.pc = "special",
                         !.sections = HeadingSections(frame.text_cleaned, input.ord)]
      [] frame.pc = "special" ->
           [frame EXCEPT !.pc = "merge",
                         !.sections = @ \o _extract_special_sections(frame.text_cleaned,
                                                                     input.ord)]
      [] frame.pc = "merge" ->
           [frame EXCEPT !.pc = "done",
                         !.result = <<[property_name |-> frame.property_name,
                                       url |-> frame.url,
                                       sections |-> MergeSections(frame.sections)]>>]

AdvanceSharedSections(frames, i, input) ==
    With(ParseStep(frames[i], input),
         LAMBDA f : [j \in DOMAIN frames |->
                        IF j = i THEN f ELSE [frames[j] EXCEPT !.sections = f.sections]])

\* Call i executes its next statement: it reads and writes its own frame.
Advance(frames, i, input) == [frames EXCEPT ![i] = ParseStep(@, input)]

InitConcurrent ==
    /\ mode = "concurrent"
    /\ arg \in {p \in ConcurrentInputs \X ConcurrentInputs :
                   /\ p[1].ord \in SetOrders(RoomStrings(p[1].data.text))
                   /\ p[2].ord \in SetOrders(RoomStrings(p[2].data.text))
                   /\ p[1].data.text = p[2].data.text => p[1].ord = p[2].ord}
    /\ runs = <<NewFrame, NewFrame>>
    /\ out = <<>>
    /\ data = NoData
    /\ cands = <<>>
    /\ merged = <<>>
    /\ jobs_store = <<>>
    /\ calls = <<>>
    /\ response = NoResponse
    /\ nreq = 0
    /\ scraper = FALSE
    /\ tasks = <<>>

ParseStatement ==
    /\ mode = "concurrent"
    /\ \E i \in DOMAIN runs :
          /\ runs[i].pc # "done"
          /\ runs' = Advance(runs, i, arg[i])
    /\ UNCHANGED <<mode, data, cands, merged, jobs_store, calls, response, nreq,
                   scraper, arg, out, tasks>>

NextConcurrent == ParseStatement

SpecConcurrent == InitConcurrent /\ [][NextConcurrent]_vars

\* The record of a call that runs alone.
Alone(input) ==
    [property_name |-> _extract_real_property_name(input.data.text, input.data.property_name),
     url |-> ResolveUrl(input.data.url),
     sections |-> _extract_firecrawl_sections(input.data.text, input.ord)]

====
